---- MODULE Spec2Model ----
(***************************************************************************)
(* Model of the session / connection manager of the network layer          *)
(* (src/src/network/mod.rs, NetworkingSystem).                             *)
(*                                                                         *)
(* A socket read is modelled as the list of protocol items the read        *)
(* returned (frames with their 16-bit header and their fields, or raw      *)
(* values that carry no header).  Enumeration fields travel as their wire  *)
(* code and are decoded by EnumDecode.  Every connect, read and write can  *)
(* fail; the server's answers are chosen by the environment.               *)
(*                                                                         *)
(* A panic (expect / unwrap / assert_eq! / index out of range) ends the    *)
(* process: it is recorded in `aborted`, the state keeps the assignments   *)
(* made before the panic, and no operation runs afterwards.                *)
(*                                                                         *)
(* The program is single-threaded: an operation runs from its call to its  *)
(* return as one step.  `result`, `received` and `written` record what the *)
(* last operation returned, read and wrote; the step `resume` is the       *)
(* caller taking the result before it calls the next operation.            *)
(*                                                                         *)
(* Further specifications look at one operation each.  PollSpec runs the   *)
(* polling loop of network_events one iteration per step, on a session     *)
(* that Spec reaches; KeepAliveSpec calls keep_alive tick after tick with  *)
(* short and long elapsed times; TimerSpec runs NetworkTimer::update call  *)
(* by call; CodecSpec applies the wire codecs (length-prefixed frames,     *)
(* WorldPosition, WorldPosition2, ItemIndex, StatusType, enumerations,     *)
(* packet headers, records of fixed size, the object record of             *)
(* src/src/loaders/map/resource.rs) to byte buffers; LogInSpec follows     *)
(* log_in from one blocking call to the next; SlotSpec runs the slot-swap  *)
(* operations on a logged-in session; FriendSpec runs the friend frames    *)
(* and the friend operations on a map connection, InventorySpec the        *)
(* inventory frames.  `byte_stream`, `iterations` and `updates` belong to  *)
(* these and keep their initial value under Spec; `friend_list` changes    *)
(* under FriendSpec only, no other specification delivers a friend frame.  *)
(***************************************************************************)
EXTENDS Integers, Sequences, FiniteSets, TLC

VARIABLES
    character_stream,           \* Option<TcpStream>: "None" or "Some"
    map_stream,                 \* Option<TcpStream>: NoStream or an open stream
    login_data,                 \* Option<LoginData>: <<>> or <<LoginData>>
    characters,                 \* Vec<CharacterInformation>
    move_request,               \* Option<usize>: <<>> or <<slot>>
    slot_count,                 \* usize
    login_keep_alive_timer,     \* accumulator of the timer, in seconds
    character_keep_alive_timer,
    map_keep_alive_timer,
    player_name,                \* String
    aborted,                    \* the process panicked
    result,                     \* what the last operation returned
    received,                   \* the reads the last operation performed
    written,                    \* the frames the last operation wrote
    byte_stream,                \* network_events: the ByteStream of the last read dispatched
    iterations,                 \* network_events: iterations of the polling loop, cyclic
    updates,                    \* NetworkTimer: the update calls so far, with what each returned
    friend_list                 \* the friends, in the order of the list

vars == <<character_stream, map_stream, login_data, characters, move_request,
          slot_count, login_keep_alive_timer, character_keep_alive_timer,
          map_keep_alive_timer, player_name, aborted, result, received, written,
          byte_stream, iterations, updates, friend_list>>

session == <<character_stream, map_stream, login_data, characters, move_request,
             slot_count, player_name, friend_list>>

timers == <<login_keep_alive_timer, character_keep_alive_timer, map_keep_alive_timer>>

locals == <<byte_stream, iterations, updates>>

-----------------------------------------------------------------------------
(* Bounds of the model *)

\* longest roster the servers send or create_character grows
MaxRoster == 2

\* keep_alive is not called once an accumulator would pass this many seconds
MaxAccumulator == 60

-----------------------------------------------------------------------------
(* Packet headers (decimal of the #[header(0x....)] attribute) *)

RawData == 0                                  \* an item that carries no header
LoginServerLoginPacket_header == 100          \* 0x0064
CharacterServerLoginPacket_header == 101      \* 0x0065
SelectCharacterPacket_header == 102           \* 0x0066
Packet6b00_header == 107                      \* 0x006b
CharacterSelectionFailedPacket_header == 108  \* 0x006c
CharacterCreationFailedPacket_header == 110   \* 0x006e
CharacterDeletionSuccessPacket_header == 111  \* 0x006f
CharacterDeletionFailedPacket_header == 112   \* 0x0070
ServerTickPacket_header == 127                \* 0x007f
LoginFailedPacket_header == 129               \* 0x0081
RestartPacket_header == 178                   \* 0x00b2
RestartResponsePacket_header == 179           \* 0x00b3
DisplayEmotionPacket_header == 192            \* 0x00c0
UpdateAttackRangePacket_header == 314         \* 0x013a
CharacterServerKeepalivePacket_header == 391  \* 0x0187
DisconnectResponsePacket_header == 395        \* 0x018b
DeleteCharacterPacket_header == 507           \* 0x01fb
LoginServerKeepalivePacket_header == 512      \* 0x0200
MapServerLoginSuccessPacket_header == 747     \* 0x02eb
RequestServerTickPacket_header == 864         \* 0x0360
MapServerLoginPacket_header == 1078           \* 0x0436
CharacterServerLoginSuccessPacket_header == 2093  \* 0x082d
LoginFailedPacket2_header == 2110             \* 0x083e
MapServerUnavailablePacket_header == 2112     \* 0x0840
RequestCharacterListPacket_header == 2465     \* 0x09a1
CreateCharacterPacket_header == 2617          \* 0x0a39
LoginServerLoginSuccessPacket_header == 2756  \* 0x0ac4
CharacterSelectionSuccessPacket_header == 2757    \* 0x0ac5
SwitchCharacterSlotPacket_header == 2260      \* 0x08d4
CreateCharacterSuccessPacket_header == 2927   \* 0x0b6f
SwitchCharacterSlotResponsePacket_header == 2928  \* 0x0b70
RequestCharacterListSuccessPacket_header == 2930  \* 0x0b72
UnknownHeader == 65535                        \* a header no packet type declares

-----------------------------------------------------------------------------
(* Enumerations: the declared variants in order, with the numeric_value    *)
(* override where one is declared (an Option: <<>> or <<value>>).          *)

LoginFailedReason ==
    << [name |-> "ServerClosed", value |-> <<1>>],
       [name |-> "AlreadyLoggedIn", value |-> <<2>>],
       [name |-> "AlreadyOnline", value |-> <<8>>] >>

LoginFailedReason2 ==
    << [name |-> "UnregisteredId", value |-> <<>>],
       [name |-> "IncorrectPassword", value |-> <<>>],
       [name |-> "IdExpired", value |-> <<>>],
       [name |-> "RejectedFromServer", value |-> <<>>],
       [name |-> "BlockedByGMTeam", value |-> <<>>],
       [name |-> "GameOutdated", value |-> <<>>],
       [name |-> "LoginProhibitedUntil", value |-> <<>>],
       [name |-> "ServerFull", value |-> <<>>],
       [name |-> "CompanyAccountLimitReached", value |-> <<>>] >>

Sex ==
    << [name |-> "Female", value |-> <<>>],
       [name |-> "Male", value |-> <<>>],
       [name |-> "Both", value |-> <<>>],
       [name |-> "Server", value |-> <<>>] >>

CharacterSelectionFailedReason ==
    << [name |-> "RejectedFromServer", value |-> <<>>] >>

\* mutant: no variant declares a numeric value
CharacterCreationFailedReasonSequential ==
    << [name |-> "CharacterNameAlreadyUsed", value |-> <<>>],
       [name |-> "NotOldEnough", value |-> <<>>],
       [name |-> "NotAllowedToUseSlot", value |-> <<>>],
       [name |-> "CharacterCerationFailed", value |-> <<>>] >>

CharacterCreationFailedReason ==
    << [name |-> "CharacterNameAlreadyUsed", value |-> <<>>],
       [name |-> "NotOldEnough", value |-> <<>>],
       [name |-> "NotAllowedToUseSlot", value |-> <<3>>],
       [name |-> "CharacterCerationFailed", value |-> <<255>>] >>

CharacterDeletionFailedReason ==
    << [name |-> "NotAllowed", value |-> <<>>],
       [name |-> "CharacterNotFound", value |-> <<>>],
       [name |-> "NotEligible", value |-> <<>>] >>

SwitchCharacterSlotResponseStatus ==
    << [name |-> "Success", value |-> <<>>],
       [name |-> "Error", value |-> <<>>] >>

RestartResponseStatus ==
    << [name |-> "Nothing", value |-> <<>>],
       [name |-> "Ok", value |-> <<>>] >>

DisconnectResponseStatus ==
    << [name |-> "Ok", value |-> <<>>],
       [name |-> "Wait10Seconds", value |-> <<>>] >>

\* The wire code of the i-th variant: its override, or one more than the
\* code of the variant before it (0 for the first).
RECURSIVE EnumCode(_, _)
EnumCode(enum, i) ==
    IF enum[i].value # <<>> THEN enum[i].value[1]
    ELSE IF i = 1 THEN 0
    ELSE EnumCode(enum, i - 1) + 1

Invalid == "invalid"

\* Decoding a wire code: the variant that carries it, Invalid (a hard decode
\* failure) when no variant does.
EnumDecode(enum, code) ==
    IF \E i \in 1..Len(enum) : EnumCode(enum, i) = code
    THEN enum[CHOOSE i \in 1..Len(enum) : EnumCode(enum, i) = code].name
    ELSE Invalid

EnumEncode(enum, name) ==
    EnumCode(enum, CHOOSE i \in 1..Len(enum) : enum[i].name = name)

-----------------------------------------------------------------------------
(* Values the environment draws from *)

AccountIds == {1, 2}
OtherLoginId == 9                            \* login_id2 of the success frames
SlotCounts == {9}                            \* normal_slot_count

\* account id, login_id1 and sex code of the login success frames: two
\* accounts, and one frame with an unassigned sex code
Credentials ==
    { [account_id |-> 1, login_id1 |-> 5, sex |-> 0],
      [account_id |-> 2, login_id1 |-> 6, sex |-> 1],
      [account_id |-> 1, login_id1 |-> 5, sex |-> 4] }

CharacterInformation(id, number, name) ==
    [header |-> RawData, character_id |-> id, character_number |-> number, name |-> name]

CharacterUniverse ==
    { CharacterInformation(1, 0, "alice"),
      CharacterInformation(2, 1, "bob") }

RECURSIVE SeqsUpTo(_, _)
SeqsUpTo(S, n) ==
    IF n = 0 THEN {<<>>}
    ELSE LET shorter == SeqsUpTo(S, n - 1)
         IN  shorter \cup {Append(s, x) : s \in shorter, x \in S}

Rosters == SeqsUpTo(CharacterUniverse, MaxRoster)

-----------------------------------------------------------------------------
(* Byte stream over the items of one read *)

ReadError == [ok |-> FALSE, data |-> <<>>]
ReadData(items) == [ok |-> TRUE, data |-> items]

ByteStream(data) == [data |-> data, offset |-> 1]

\* The item at the cursor is a complete frame of the packet type `header`.
\* A frame whose header matches but whose body is cut short, or carries an
\* unassigned enumeration code, makes the decode panic: Malformed.
MatchSignature(stream, header) ==
    /\ stream.offset <= Len(stream.data)
    /\ stream.data[stream.offset].header = header

Malformed(stream) == stream.data[stream.offset].truncated

Packet(stream) == stream.data[stream.offset]

Advance(stream) == [stream EXCEPT !.offset = @ + 1]

Truncated(header) == [header |-> header, truncated |-> TRUE]

-----------------------------------------------------------------------------
(* Session state *)

\* Option<T> is a sequence of at most one element; a stream without fields
\* of interest is "None" or "Some"
None == "None"
Some == "Some"

\* The map connection: whether it is open, the first frame written on it and
\* whether a restart request was written on it.
NoFrame == [header |-> RawData]
NoStream == [open |-> FALSE, first |-> NoFrame, restart_sent |-> FALSE]
NewStream == [open |-> TRUE, first |-> NoFrame, restart_sent |-> FALSE]

\* write_all on the map connection
WriteTo(stream, frame) ==
    [stream EXCEPT !.first = IF @ = NoFrame THEN frame ELSE @,
                   !.restart_sent = @ \/ frame.header = RestartPacket_header]

LoginData(account_id, login_id1, sex) ==
    [account_id |-> account_id, login_id1 |-> login_id1, sex |-> sex]

NoCharacter == [header |-> RawData, character_id |-> 0, character_number |-> 0, name |-> ""]

\* What an operation returned: Ok, Err(msg) or a panic, the argument it was
\* called with, and the value inside Ok.
Result(op, status, msg) ==
    [op |-> op, status |-> status, msg |-> msg, arg |-> <<>>, account_id |-> 0,
     character |-> NoCharacter, map_name |-> <<>>, events |-> <<>>]

WithArgument(res, arg) == [res EXCEPT !.arg = <<arg>>]

Ok(op) == Result(op, "ok", "")
Err(op, msg) == Result(op, "err", msg)
Panic(op, msg) == Result(op, "panic", msg)

Written(to, frame) == [to |-> to, frame |-> frame]

Init ==
    /\ character_stream = None
    /\ map_stream = NoStream
    /\ login_data = <<>>
    /\ characters = <<>>
    /\ move_request = <<>>
    /\ slot_count = 0
    /\ login_keep_alive_timer = 0
    /\ character_keep_alive_timer = 0
    /\ map_keep_alive_timer = 0
    /\ player_name = ""
    /\ aborted = FALSE
    /\ result = Result("idle", "ok", "")
    /\ received = <<>>
    /\ written = <<>>
    /\ byte_stream = ByteStream(<<>>)
    /\ iterations = 0
    /\ updates = <<>>
    /\ friend_list = <<>>

\* No operation is running and the caller has taken the last result: the
\* next operation can be called.
Idle ==
    /\ ~aborted
    /\ result = Result("idle", "ok", "")
    /\ received = <<>>
    /\ written = <<>>

\* The caller takes what the operation returned (Ok or Err) and goes on;
\* nothing of the session changes.
resume ==
    /\ ~aborted
    /\ ~Idle
    /\ result.status # "running"
    /\ result' = Result("idle", "ok", "")
    /\ received' = <<>>
    /\ written' = <<>>
    /\ UNCHANGED <<aborted, session, timers, locals>>

\* An operation ends: what it returned, read and wrote.
Return(res, rd, wr) ==
    /\ result' = res
    /\ aborted' = (res.status = "panic")
    /\ received' = rd
    /\ written' = wr
    /\ UNCHANGED locals

-----------------------------------------------------------------------------
(* Frames of the login and character servers *)

LoginFailedPacket(reason) ==
    [header |-> LoginFailedPacket_header, truncated |-> FALSE, reason |-> reason]

LoginFailedPacket2(reason) ==
    [header |-> LoginFailedPacket2_header, truncated |-> FALSE, reason |-> reason]

CharacterServerInformation == [server_ip |-> "10.0.0.1", server_port |-> 6121]

LoginServerLoginSuccessPacket(login_id1, account_id, login_id2, sex, servers) ==
    [header |-> LoginServerLoginSuccessPacket_header, truncated |-> FALSE,
     login_id1 |-> login_id1, account_id |-> account_id, login_id2 |-> login_id2,
     sex |-> sex, character_server_information |-> servers]

CharacterServerLoginSuccessPacket(normal_slot_count) ==
    [header |-> CharacterServerLoginSuccessPacket_header, truncated |-> FALSE,
     normal_slot_count |-> normal_slot_count]

RequestCharacterListSuccessPacket(character_information) ==
    [header |-> RequestCharacterListSuccessPacket_header, truncated |-> FALSE,
     character_information |-> character_information]

UnknownPacket == [header |-> UnknownHeader, truncated |-> FALSE]

\* the account id the character server sends first, without a header
RawAccountId(account_id) ==
    [header |-> RawData, truncated |-> FALSE, account_id |-> account_id]

LoginServerLoginPacket == [header |-> LoginServerLoginPacket_header]

CharacterServerLoginPacket(account_id, login_id1, login_id2, sex) ==
    [header |-> CharacterServerLoginPacket_header, account_id |-> account_id,
     login_id1 |-> login_id1, login_id2 |-> login_id2, sex |-> sex]

RequestCharacterListPacket == [header |-> RequestCharacterListPacket_header]

\* One frame (or none, or a failed read) per socket read.
Reads(frames) == {ReadError, ReadData(<<>>)} \cup {ReadData(<<f>>) : f \in frames}

LoginFailedFrames == {LoginFailedPacket(c) : c \in {1, 2, 3, 8}}

LoginServerFrames ==
    LoginFailedFrames
    \cup {LoginFailedPacket2(c) : c \in 0..9}
    \cup {LoginServerLoginSuccessPacket(c.login_id1, c.account_id, OtherLoginId, c.sex, srv) :
             c \in Credentials, srv \in {<<>>, <<CharacterServerInformation>>}}
    \cup {Truncated(LoginServerLoginSuccessPacket_header), UnknownPacket}

AccountIdFrames ==
    {RawAccountId(a) : a \in AccountIds} \cup {Truncated(RawData)}

CharacterServerLoginFrames ==
    LoginFailedFrames
    \cup {CharacterServerLoginSuccessPacket(n) : n \in SlotCounts}
    \cup {UnknownPacket}

CharacterListFrames ==
    {RequestCharacterListSuccessPacket(r) : r \in Rosters}
    \cup {Truncated(RequestCharacterListSuccessPacket_header), UnknownPacket}

-----------------------------------------------------------------------------
(* log_in *)

LoginFailedMessage(reason) ==
    CASE reason = "ServerClosed" -> "server closed"
      [] reason = "AlreadyLoggedIn" -> "someone has already logged in with this id"
      [] reason = "AlreadyOnline" -> "already online"

\* mutant: two arms of the match carry each other's string
LoginFailed2MessageSwapped(reason) ==
    CASE reason = "UnregisteredId" -> "unregistered id"
      [] reason = "IncorrectPassword" -> "incorrect password"
      [] reason = "IdExpired" -> "id has expired"
      [] reason = "RejectedFromServer" -> "rejected from server"
      [] reason = "BlockedByGMTeam" -> "blocked by gm team"
      [] reason = "GameOutdated" -> "game outdated"
      [] reason = "LoginProhibitedUntil" -> "server is full"
      [] reason = "ServerFull" -> "login prohibited until"
      [] reason = "CompanyAccountLimitReached" -> "company account limit reached"

LoginFailed2Message(reason) ==
    CASE reason = "UnregisteredId" -> "unregistered id"
      [] reason = "IncorrectPassword" -> "incorrect password"
      [] reason = "IdExpired" -> "id has expired"
      [] reason = "RejectedFromServer" -> "rejected from server"
      [] reason = "BlockedByGMTeam" -> "blocked by gm team"
      [] reason = "GameOutdated" -> "game outdated"
      [] reason = "LoginProhibitedUntil" -> "login prohibited until"
      [] reason = "ServerFull" -> "server is full"
      [] reason = "CompanyAccountLimitReached" -> "company account limit reached"

\* mutant: a log_in that returns an error forgets the stored LoginData
LogInEndClearing(res, rd, wr, ld, cs, chars, slots) ==
    /\ login_data' = IF res.status = "err" THEN <<>> ELSE ld
    /\ character_stream' = cs
    /\ characters' = chars
    /\ slot_count' = slots
    /\ UNCHANGED <<friend_list, map_stream, move_request, player_name, timers>>
    /\ Return(res, rd, wr)

\* log_in ends: the fields it may have assigned, everything else untouched
LogInEnd(res, rd, wr, ld, cs, chars, slots) ==
    /\ login_data' = ld
    /\ character_stream' = cs
    /\ characters' = chars
    /\ slot_count' = slots
    /\ UNCHANGED <<friend_list, map_stream, move_request, player_name, timers>>
    /\ Return(res, rd, wr)

\* mutant: the LoginData of the success frame is not stored
LogInLoginDataDropped(packet) == <<>>

\* self.login_data = LoginData::new(account_id, login_id1, sex).into()
LogInLoginData(packet) ==
    <<LoginData(packet.account_id, packet.login_id1, EnumDecode(Sex, packet.sex))>>

\* mutant: the list is pushed onto the roster instead of replacing it
LogInCharactersExtend(old, character_information) == old \o character_information

\* self.characters.set(character_information)
LogInCharacters(old, character_information) == character_information

\* the third read on the character connection: the character list
LogInCharacterList(op, ld, rd, wr, login_success) ==
    \E w3 \in BOOLEAN :
        IF ~w3 THEN
            LogInEnd(Panic(op, "failed to send packet to character server"),
                     rd, wr, ld, Some, characters, slot_count)
        ELSE \E r4 \in Reads(CharacterListFrames) :
            LET wr3 == Append(wr, Written("character", RequestCharacterListPacket))
                rd4 == Append(rd, r4)
                stream == ByteStream(r4.data)
            IN
            IF ~r4.ok THEN
                LogInEnd(Panic(op, "failed to get response from character server"),
                         rd4, wr3, ld, Some, characters, slot_count)
            ELSE IF \/ ~MatchSignature(stream, RequestCharacterListSuccessPacket_header)
                    \/ Malformed(stream) THEN
                LogInEnd(Panic(op, "unwrap"), rd4, wr3, ld, Some, characters, slot_count)
            ELSE
                LogInEnd(Ok(op), rd4, wr3, ld, Some,
                         LogInCharacters(characters, Packet(stream).character_information),
                         login_success.normal_slot_count)

\* the second read on the character connection: login failed or login success
LogInCharacterServerLogin(op, ld, rd, wr) ==
    \E r3 \in Reads(CharacterServerLoginFrames) :
        LET rd3 == Append(rd, r3)
            stream == ByteStream(r3.data)
        IN
        IF ~r3.ok THEN
            LogInEnd(Panic(op, "failed to get response from character server"),
                     rd3, wr, ld, Some, characters, slot_count)
        ELSE IF MatchSignature(stream, LoginFailedPacket_header) THEN
            IF EnumDecode(LoginFailedReason, Packet(stream).reason) = Invalid THEN
                LogInEnd(Panic(op, "invalid enum"), rd3, wr, ld, Some, characters, slot_count)
            ELSE
                LogInEnd(Err(op, LoginFailedMessage(EnumDecode(LoginFailedReason, Packet(stream).reason))),
                         rd3, wr, ld, Some, characters, slot_count)
        ELSE IF ~MatchSignature(stream, CharacterServerLoginSuccessPacket_header) THEN
            LogInEnd(Panic(op, "unwrap"), rd3, wr, ld, Some, characters, slot_count)
        ELSE
            LogInCharacterList(op, ld, rd3, wr, Packet(stream))

\* mutant: the account id the character server sends is not compared
LogInAccountIdUnchecked(account_id, packet) == TRUE

\* assert_eq!(account_id, login_server_login_success_packet.account_id)
LogInAccountIdAccepted(account_id, packet) == account_id = packet.account_id

\* the first read on the character connection: the account id
LogInAccountId(op, ld, rd, wr, packet) ==
    \E r2 \in Reads(AccountIdFrames) :
        LET rd2 == Append(rd, r2) IN
        IF ~r2.ok THEN
            LogInEnd(Panic(op, "failed to get response from character server"),
                     rd2, wr, ld, Some, characters, slot_count)
        ELSE IF \/ r2.data = <<>>
                \/ r2.data[1].header # RawData
                \/ r2.data[1].truncated THEN
            LogInEnd(Panic(op, "byte stream is shorter than expected"),
                     rd2, wr, ld, Some, characters, slot_count)
        ELSE IF ~LogInAccountIdAccepted(r2.data[1].account_id, packet) THEN
            LogInEnd(Panic(op, "assertion failed"), rd2, wr, ld, Some, characters, slot_count)
        ELSE
            LogInCharacterServerLogin(op, ld, rd2, wr)

\* connecting to the character server and sending the character-server login
LogInCharacterServer(op, ld, rd, wr, packet) ==
    \E c1 \in BOOLEAN :
        IF ~c1 THEN
            LogInEnd(Err(op, "Failed to connect to character server. Please try again"),
                     rd, wr, ld, character_stream, characters, slot_count)
        ELSE \E w2 \in BOOLEAN :
            IF ~w2 THEN
                LogInEnd(Err(op, "failed to send packet to character server"),
                         rd, wr, ld, Some, characters, slot_count)
            ELSE
                LogInAccountId(op, ld, rd,
                    Append(wr, Written("character",
                        CharacterServerLoginPacket(packet.account_id, packet.login_id1,
                            packet.login_id2, EnumDecode(Sex, packet.sex)))),
                    packet)

\* the answer of the login server
LogInLoginServer(op, r1) ==
    LET wr1 == <<Written("login", LoginServerLoginPacket)>>
        rd1 == <<r1>>
        stream == ByteStream(r1.data)
        unchanged(res) ==
            LogInEnd(res, rd1, wr1, login_data, character_stream, characters, slot_count)
    IN
    IF ~r1.ok THEN
        unchanged(Panic(op, "failed to get response from login server"))
    ELSE IF MatchSignature(stream, LoginFailedPacket_header) THEN
        IF EnumDecode(LoginFailedReason, Packet(stream).reason) = Invalid THEN
            unchanged(Panic(op, "invalid enum"))
        ELSE
            unchanged(Err(op, LoginFailedMessage(EnumDecode(LoginFailedReason, Packet(stream).reason))))
    ELSE IF MatchSignature(stream, LoginFailedPacket2_header) THEN
        IF EnumDecode(LoginFailedReason2, Packet(stream).reason) = Invalid THEN
            unchanged(Panic(op, "invalid enum"))
        ELSE
            unchanged(Err(op, LoginFailed2Message(EnumDecode(LoginFailedReason2, Packet(stream).reason))))
    ELSE IF ~MatchSignature(stream, LoginServerLoginSuccessPacket_header) THEN
        unchanged(Panic(op, "unwrap"))
    ELSE IF Malformed(stream) \/ EnumDecode(Sex, Packet(stream).sex) = Invalid THEN
        unchanged(Panic(op, "invalid packet"))
    ELSE IF Packet(stream).character_server_information = <<>> THEN
        LogInEnd(Err(op, "no character server available"), rd1, wr1,
                 LogInLoginData(Packet(stream)), character_stream, characters, slot_count)
    ELSE
        LogInCharacterServer(op, LogInLoginData(Packet(stream)), rd1, wr1, Packet(stream))

log_in ==
    /\ Idle
    /\ \E w1 \in BOOLEAN :
        IF ~w1 THEN
            LogInEnd(Panic("log_in", "failed to send packet to login server"), <<>>, <<>>,
                     login_data, character_stream, characters, slot_count)
        ELSE \E r1 \in Reads(LoginServerFrames) : LogInLoginServer("log_in", r1)

-----------------------------------------------------------------------------
(* select_character *)

Slots == {0, 1}
ClientTick == 100

GatExtension == <<".", "g", "a", "t">>

CharacterSelectionFailedPacket(reason) ==
    [header |-> CharacterSelectionFailedPacket_header, truncated |-> FALSE, reason |-> reason]

MapServerUnavailablePacket ==
    [header |-> MapServerUnavailablePacket_header, truncated |-> FALSE]

CharacterSelectionSuccessPacket(character_id, map_name) ==
    [header |-> CharacterSelectionSuccessPacket_header, truncated |-> FALSE,
     character_id |-> character_id, map_name |-> map_name]

SelectCharacterPacket(selected_slot) ==
    [header |-> SelectCharacterPacket_header, selected_slot |-> selected_slot]

MapServerLoginPacket(account_id, character_id, login_id1, client_tick, sex) ==
    [header |-> MapServerLoginPacket_header, account_id |-> account_id,
     character_id |-> character_id, login_id1 |-> login_id1,
     client_tick |-> client_tick, sex |-> sex]

SelectCharacterFrames ==
    {CharacterSelectionFailedPacket(c) : c \in {0, 1}}
    \cup LoginFailedFrames
    \cup {MapServerUnavailablePacket, UnknownPacket,
          Truncated(CharacterSelectionSuccessPacket_header)}
    \cup {CharacterSelectionSuccessPacket(1, <<"p", ".", "g", "a", "t">>),
          CharacterSelectionSuccessPacket(2, <<"p">>),
          CharacterSelectionSuccessPacket(2, <<".", "g", "a", "t", "p", ".", "g", "a", "t">>)}

SelectCharacterLoginFailedMessage(reason) ==
    CASE reason = "ServerClosed" -> "Server closed"
      [] reason = "AlreadyLoggedIn" -> "Someone has already logged in with this ID"
      [] reason = "AlreadyOnline" -> "Already online"

\* str::replace(pattern, ""): every non-overlapping occurrence, left to right
RECURSIVE Replace(_, _)
Replace(string, pattern) ==
    IF Len(string) < Len(pattern) THEN string
    ELSE IF SubSeq(string, 1, Len(pattern)) = pattern
         THEN Replace(SubSeq(string, Len(pattern) + 1, Len(string)), pattern)
         ELSE <<Head(string)>> \o Replace(Tail(string), pattern)

\* .iter().find(|character| character.character_number as usize == slot):
\* the index of the first match, 0 when there is none
FindCharacter(roster, slot) ==
    IF \E i \in 1..Len(roster) : roster[i].character_number = slot
    THEN CHOOSE i \in 1..Len(roster) :
            /\ roster[i].character_number = slot
            /\ \A j \in 1..(i - 1) : roster[j].character_number # slot
    ELSE 0

\* mutant: a select_character that returns an error drops the map connection
SelectCharacterEndClosing(res, rd, wr, ms, name) ==
    /\ map_stream' = IF res.status = "err" THEN NoStream ELSE ms
    /\ player_name' = name
    /\ UNCHANGED <<friend_list, character_stream, login_data, characters, move_request, slot_count, timers>>
    /\ Return(res, rd, wr)

SelectCharacterEnd(res, rd, wr, ms, name) ==
    /\ map_stream' = ms
    /\ player_name' = name
    /\ UNCHANGED <<friend_list, character_stream, login_data, characters, move_request, slot_count, timers>>
    /\ Return(res, rd, wr)

\* mutant: the account id is sent in the place of the character id
SelectCharacterMapLoginAccount(ld, packet) ==
    MapServerLoginPacket(ld.account_id, ld.account_id, ld.login_id1, ClientTick, ld.sex)

\* MapServerLoginPacket::new(account_id, character_id, login_id1, ClientTick(100), sex)
SelectCharacterMapLogin(ld, packet) ==
    MapServerLoginPacket(ld.account_id, packet.character_id, ld.login_id1, ClientTick, ld.sex)

\* Ok((account_id, character_information, map_name.replace(".gat", "")))
SelectCharacterOk(res, ld, character, packet) ==
    [res EXCEPT !.account_id = ld.account_id,
                !.character = character,
                !.map_name = Replace(packet.map_name, GatExtension)]

\* the selection succeeded: connect to the map server and log in
SelectCharacterMapServer(op, slot, rd, wr, packet) ==
    \E c1 \in {"connected", "connect failed", "set_nonblocking failed"} :
        IF c1 = "connect failed" THEN
            SelectCharacterEnd(WithArgument(Err(op, "Failed to connect to map server. Please try again"), slot),
                               rd, wr, map_stream, player_name)
        ELSE IF c1 = "set_nonblocking failed" THEN
            SelectCharacterEnd(WithArgument(Panic(op, "set_nonblocking"), slot),
                               rd, wr, map_stream, player_name)
        ELSE IF login_data = <<>> THEN
            SelectCharacterEnd(WithArgument(Panic(op, "unwrap"), slot), rd, wr, NewStream, player_name)
        ELSE \E w2 \in BOOLEAN :
            LET frame == SelectCharacterMapLogin(login_data[1], packet)
                opened == WriteTo(NewStream, frame)
                wr2 == Append(wr, Written("map", frame))
                found == FindCharacter(characters, slot)
            IN
            IF ~w2 THEN
                SelectCharacterEnd(WithArgument(Panic(op, "failed to send packet to map server"), slot),
                                   rd, wr, NewStream, player_name)
            ELSE IF found = 0 THEN
                SelectCharacterEnd(WithArgument(Panic(op, "unwrap"), slot), rd, wr2, opened, player_name)
            ELSE
                SelectCharacterEnd(
                    SelectCharacterOk(WithArgument(Ok(op), slot), login_data[1], characters[found], packet),
                    rd, wr2, opened, characters[found].name)

\* the answer of the character server
SelectCharacterResponse(op, slot, r1, wr) ==
    LET rd == <<r1>>
        stream == ByteStream(r1.data)
        unchanged(res) == SelectCharacterEnd(WithArgument(res, slot), rd, wr, map_stream, player_name)
    IN
    IF ~r1.ok THEN
        unchanged(Panic(op, "failed to get response from character server"))
    ELSE IF MatchSignature(stream, CharacterSelectionFailedPacket_header) THEN
        IF EnumDecode(CharacterSelectionFailedReason, Packet(stream).reason) = Invalid THEN
            unchanged(Panic(op, "invalid enum"))
        ELSE
            unchanged(Err(op, "rejected from server"))
    ELSE IF MatchSignature(stream, LoginFailedPacket_header) THEN
        IF EnumDecode(LoginFailedReason, Packet(stream).reason) = Invalid THEN
            unchanged(Panic(op, "invalid enum"))
        ELSE
            unchanged(Err(op, SelectCharacterLoginFailedMessage(
                                  EnumDecode(LoginFailedReason, Packet(stream).reason))))
    ELSE IF MatchSignature(stream, MapServerUnavailablePacket_header) THEN
        unchanged(Err(op, "Map server currently unavailable"))
    ELSE IF \/ ~MatchSignature(stream, CharacterSelectionSuccessPacket_header)
            \/ Malformed(stream) THEN
        unchanged(Panic(op, "unwrap"))
    ELSE
        SelectCharacterMapServer(op, slot, rd, wr, Packet(stream))

select_character ==
    /\ Idle
    /\ \E slot \in Slots :
        LET op == "select_character"
            unchanged(res) ==
                SelectCharacterEnd(WithArgument(res, slot), <<>>, <<>>, map_stream, player_name)
        IN
        IF character_stream = None THEN
            unchanged(Panic(op, "no character server connection"))
        ELSE \E w1 \in BOOLEAN :
            IF ~w1 THEN
                unchanged(Panic(op, "failed to send packet to character server"))
            ELSE \E r1 \in Reads(SelectCharacterFrames) :
                SelectCharacterResponse(op, slot, r1,
                    <<Written("character", SelectCharacterPacket(slot % 256))>>)

-----------------------------------------------------------------------------
(* create_character, delete_character *)

CharacterCreationFailedPacket(reason) ==
    [header |-> CharacterCreationFailedPacket_header, truncated |-> FALSE, reason |-> reason]

CreateCharacterSuccessPacket(character_information) ==
    [header |-> CreateCharacterSuccessPacket_header, truncated |-> FALSE,
     character_information |-> character_information]

CharacterDeletionFailedPacket(reason) ==
    [header |-> CharacterDeletionFailedPacket_header, truncated |-> FALSE, reason |-> reason]

CharacterDeletionSuccessPacket ==
    [header |-> CharacterDeletionSuccessPacket_header, truncated |-> FALSE]

CreateCharacterPacket(slot) == [header |-> CreateCharacterPacket_header, slot |-> slot]

DeleteCharacterPacket(character_id) ==
    [header |-> DeleteCharacterPacket_header, character_id |-> character_id]

\* the roster never grows past MaxRoster: a full roster gets no success frame
CreateCharacterFrames ==
    {CharacterCreationFailedPacket(c) : c \in {0, 1, 2, 3, 255}}
    \cup {UnknownPacket}
    \cup (IF Len(characters) < MaxRoster
          THEN {CreateCharacterSuccessPacket(c) : c \in CharacterUniverse}
          ELSE {})

DeleteCharacterFrames ==
    {CharacterDeletionFailedPacket(c) : c \in {0, 1, 2, 3}}
    \cup {CharacterDeletionSuccessPacket, UnknownPacket}

DeletedIds == {1, 2, 3}

CharacterCreationFailedMessage(reason) ==
    CASE reason = "CharacterNameAlreadyUsed" -> "character name is already used"
      [] reason = "NotOldEnough" -> "you are not old enough to create a character"
      [] reason = "NotAllowedToUseSlot" -> "you are not allowed to use that character slot"
      [] reason = "CharacterCerationFailed" -> "character creation failed"

CharacterDeletionFailedMessage(reason) ==
    CASE reason = "NotAllowed" -> "you are not allowed to delete this character"
      [] reason = "CharacterNotFound" -> "character was not found"
      [] reason = "NotEligible" -> "character is not eligible for deletion"

\* an operation that touches nothing but the roster ends
RosterEnd(res, rd, wr, chars) ==
    /\ characters' = chars
    /\ UNCHANGED <<friend_list, character_stream, map_stream, login_data, move_request, slot_count,
                   player_name, timers>>
    /\ Return(res, rd, wr)

\* mutant: the new character is inserted at the front
CreateCharacterRosterFront(roster, character_information) == <<character_information>> \o roster

\* self.characters.push(character_information)
CreateCharacterRoster(roster, character_information) == Append(roster, character_information)

\* mutant: only the first entry with the id is removed
RECURSIVE DeleteCharacterRosterFirst(_, _)
DeleteCharacterRosterFirst(roster, character_id) ==
    IF roster = <<>> THEN <<>>
    ELSE IF Head(roster).character_id # character_id
         THEN <<Head(roster)>> \o DeleteCharacterRosterFirst(Tail(roster), character_id)
         ELSE Tail(roster)

\* self.characters.retain(|character| character.character_id != character_id)
RECURSIVE DeleteCharacterRoster(_, _)
DeleteCharacterRoster(roster, character_id) ==
    IF roster = <<>> THEN <<>>
    ELSE IF Head(roster).character_id # character_id
         THEN <<Head(roster)>> \o DeleteCharacterRoster(Tail(roster), character_id)
         ELSE DeleteCharacterRoster(Tail(roster), character_id)

CreateCharacterResponse(op, slot, r1, wr) ==
    LET rd == <<r1>>
        stream == ByteStream(r1.data)
        unchanged(res) == RosterEnd(WithArgument(res, slot), rd, wr, characters)
    IN
    IF ~r1.ok THEN
        unchanged(Panic(op, "failed to get response from character server"))
    ELSE IF MatchSignature(stream, CharacterCreationFailedPacket_header) THEN
        IF EnumDecode(CharacterCreationFailedReason, Packet(stream).reason) = Invalid THEN
            unchanged(Panic(op, "invalid enum"))
        ELSE
            unchanged(Err(op, CharacterCreationFailedMessage(
                                  EnumDecode(CharacterCreationFailedReason, Packet(stream).reason))))
    ELSE IF ~MatchSignature(stream, CreateCharacterSuccessPacket_header) THEN
        unchanged(Panic(op, "unwrap"))
    ELSE
        RosterEnd(WithArgument(Ok(op), slot), rd, wr,
                  CreateCharacterRoster(characters, Packet(stream).character_information))

create_character ==
    /\ Idle
    /\ \E slot \in Slots :
        LET op == "create_character"
            unchanged(res) == RosterEnd(WithArgument(res, slot), <<>>, <<>>, characters)
        IN
        IF character_stream = None THEN
            unchanged(Panic(op, "no character server connection"))
        ELSE \E w1 \in BOOLEAN :
            IF ~w1 THEN
                unchanged(Panic(op, "failed to send packet to character server"))
            ELSE \E r1 \in Reads(CreateCharacterFrames) :
                CreateCharacterResponse(op, slot, r1,
                    <<Written("character", CreateCharacterPacket(slot % 256))>>)

DeleteCharacterResponse(op, character_id, r1, wr) ==
    LET rd == <<r1>>
        stream == ByteStream(r1.data)
        unchanged(res) == RosterEnd(WithArgument(res, character_id), rd, wr, characters)
    IN
    IF ~r1.ok THEN
        unchanged(Panic(op, "failed to get response from character server"))
    ELSE IF MatchSignature(stream, CharacterDeletionFailedPacket_header) THEN
        IF EnumDecode(CharacterDeletionFailedReason, Packet(stream).reason) = Invalid THEN
            unchanged(Panic(op, "invalid enum"))
        ELSE
            unchanged(Err(op, CharacterDeletionFailedMessage(
                                  EnumDecode(CharacterDeletionFailedReason, Packet(stream).reason))))
    ELSE IF ~MatchSignature(stream, CharacterDeletionSuccessPacket_header) THEN
        unchanged(Panic(op, "unwrap"))
    ELSE
        RosterEnd(WithArgument(Ok(op), character_id), rd, wr,
                  DeleteCharacterRoster(characters, character_id))

delete_character ==
    /\ Idle
    /\ \E character_id \in DeletedIds :
        LET op == "delete_character"
            unchanged(res) == RosterEnd(WithArgument(res, character_id), <<>>, <<>>, characters)
        IN
        IF character_stream = None THEN
            unchanged(Panic(op, "no character server connection"))
        ELSE \E w1 \in BOOLEAN :
            IF ~w1 THEN
                unchanged(Panic(op, "failed to send packet to character server"))
            ELSE \E r1 \in Reads(DeleteCharacterFrames) :
                DeleteCharacterResponse(op, character_id, r1,
                    <<Written("character", DeleteCharacterPacket(character_id))>>)

-----------------------------------------------------------------------------
(* switch_character_slot and its pending request *)

OriginSlots == {0}
DestinationSlots == {1}

SwitchCharacterSlotResponsePacket(status) ==
    [header |-> SwitchCharacterSlotResponsePacket_header, truncated |-> FALSE, status |-> status]

Packet6b00 == [header |-> Packet6b00_header, truncated |-> FALSE]

SwitchCharacterSlotPacket(origin_slot, destination_slot) ==
    [header |-> SwitchCharacterSlotPacket_header, origin_slot |-> origin_slot,
     destination_slot |-> destination_slot]

\* One read carries the response frame and, on success, the login-success
\* frame, packet 0x006b and the character records.
SwitchCharacterSlotData ==
    {<<SwitchCharacterSlotResponsePacket(c)>> : c \in {0, 1, 2}}
    \cup {<<UnknownPacket>>,
          <<SwitchCharacterSlotResponsePacket(0), CharacterServerLoginSuccessPacket(9)>>}
    \cup {<<SwitchCharacterSlotResponsePacket(0), CharacterServerLoginSuccessPacket(9), Packet6b00>>
             \o r : r \in Rosters}

\* mutant: take() hands out the pending request and leaves it in place
MoveRequestTakeKept(request) == request

\* what self.move_request.take() leaves behind
MoveRequestTake(request) == <<>>

MoveRequestEnd(res, rd, wr, request, chars) ==
    /\ move_request' = request
    /\ characters' = chars
    /\ UNCHANGED <<friend_list, character_stream, map_stream, login_data, slot_count, player_name, timers>>
    /\ Return(res, rd, wr)

\* mutant: every record of the response is pushed
SwitchCharacterSlotRosterAll(character_count, records) == records

\* the records the loop `for _index in 0..character_count` pushes from the
\* items left in the stream, before it runs out of them
SwitchCharacterSlotRoster(character_count, records) ==
    SubSeq(records, 1, IF character_count < Len(records) THEN character_count ELSE Len(records))

SwitchCharacterSlotResponse(op, destination_slot, r1, wr) ==
    LET rd == <<r1>>
        stream == ByteStream(r1.data)
        taken(res, chars) ==
            MoveRequestEnd(WithArgument(res, destination_slot), rd, wr,
                           MoveRequestTake(move_request), chars)
        records == SubSeq(r1.data, 4, Len(r1.data))
    IN
    IF ~r1.ok THEN
        taken(Panic(op, "failed to get response from character server"), characters)
    ELSE IF ~MatchSignature(stream, SwitchCharacterSlotResponsePacket_header) THEN
        taken(Panic(op, "unwrap"), characters)
    ELSE IF EnumDecode(SwitchCharacterSlotResponseStatus, Packet(stream).status) = Invalid THEN
        taken(Panic(op, "invalid enum"), characters)
    ELSE IF EnumDecode(SwitchCharacterSlotResponseStatus, Packet(stream).status) = "Error" THEN
        taken(Err(op, "failed to move character to a different slot"), characters)
    ELSE IF ~MatchSignature(Advance(stream), CharacterServerLoginSuccessPacket_header) THEN
        taken(Panic(op, "unwrap"), characters)
    ELSE IF ~MatchSignature(Advance(Advance(stream)), Packet6b00_header) THEN
        taken(Panic(op, "unwrap"), characters)
    ELSE IF Len(records) < Len(characters) THEN
        taken(Panic(op, "byte stream is shorter than expected"),
              SwitchCharacterSlotRoster(Len(characters), records))
    ELSE
        taken(Ok(op), SwitchCharacterSlotRoster(Len(characters), records))

switch_character_slot ==
    /\ Idle
    /\ \E destination_slot \in DestinationSlots :
        LET op == "switch_character_slot"
            end(res, request) ==
                MoveRequestEnd(WithArgument(res, destination_slot), <<>>, <<>>, request, characters)
        IN
        IF move_request = <<>> THEN
            end(Panic(op, "unwrap"), MoveRequestTake(move_request))
        ELSE IF character_stream = None THEN
            end(Panic(op, "no character server connection"), MoveRequestTake(move_request))
        ELSE \E w1 \in BOOLEAN :
            IF ~w1 THEN
                end(Panic(op, "failed to send packet to character server"),
                    MoveRequestTake(move_request))
            ELSE \E data \in SwitchCharacterSlotData, ok \in BOOLEAN :
                /\ ok \/ data = <<UnknownPacket>>
                /\ SwitchCharacterSlotResponse(op, destination_slot,
                       IF ok THEN ReadData(data) ELSE ReadError,
                       <<Written("character",
                           SwitchCharacterSlotPacket(move_request[1], destination_slot))>>)

\* self.move_request.set(Some(origin_slot))
RequestSwitchCharacterSlot(origin_slots) ==
    /\ Idle
    /\ \E origin_slot \in origin_slots :
        MoveRequestEnd(WithArgument(Ok("request_switch_character_slot"), origin_slot),
                       <<>>, <<>>, <<origin_slot>>, characters)

request_switch_character_slot == RequestSwitchCharacterSlot(OriginSlots)

cancel_switch_character_slot ==
    /\ Idle
    /\ MoveRequestEnd(Ok("cancel_switch_character_slot"), <<>>, <<>>,
                      MoveRequestTake(move_request), characters)

-----------------------------------------------------------------------------
(* log_out, disconnect_from_map_server *)

RestartPacket(restart_type) == [header |-> RestartPacket_header, restart_type |-> restart_type]

MapStreamEnd(res, rd, wr, ms) ==
    /\ map_stream' = ms
    /\ UNCHANGED <<friend_list, character_stream, login_data, characters, move_request, slot_count,
                   player_name, timers>>
    /\ Return(res, rd, wr)

\* self.send_packet_to_map_server(RestartPacket::new(RestartType::Disconnect)); Ok(())
LogOutMapStream(stream, frame) == WriteTo(stream, frame)

log_out ==
    /\ Idle
    /\ LET op == "log_out"
           frame == RestartPacket("Disconnect")
       IN
       IF ~map_stream.open THEN
           MapStreamEnd(Panic(op, "no map server connection"), <<>>, <<>>, map_stream)
       ELSE \E w1 \in BOOLEAN :
           IF ~w1 THEN
               MapStreamEnd(Panic(op, "failed to send packet to map server"), <<>>, <<>>, map_stream)
           ELSE
               MapStreamEnd(Ok(op), <<>>, <<Written("map", frame)>>, LogOutMapStream(map_stream, frame))

\* mutant: the stream is not dropped
DisconnectFromMapServerStreamKept(stream) == stream

\* self.map_stream = None
DisconnectFromMapServerStream(stream) == NoStream

disconnect_from_map_server ==
    /\ Idle
    /\ MapStreamEnd(Ok("disconnect_from_map_server"), <<>>, <<>>,
                    DisconnectFromMapServerStream(map_stream))

-----------------------------------------------------------------------------
(* keep_alive *)

LoginKeepAlivePeriod == 58
CharacterKeepAlivePeriod == 10
MapKeepAlivePeriod == 4

\* elapsed seconds of one keep_alive call
Deltas == {30}

\* mutant: a rollover takes out every whole period
NetworkTimerUpdateDrained(accumulator, period, elapsed_time) ==
    LET sum == accumulator + elapsed_time
        reset == sum > period
    IN  [accumulator |-> IF reset THEN ((sum - 1) % period) + 1 ELSE sum, reset |-> reset]

\* mutant: a rollover starts the accumulator again at zero
NetworkTimerUpdateZeroed(accumulator, period, elapsed_time) ==
    LET sum == accumulator + elapsed_time
        reset == sum > period
    IN  [accumulator |-> IF reset THEN 0 ELSE sum, reset |-> reset]

\* NetworkTimer::update: the new accumulator and whether the timer rolled over
NetworkTimerUpdate(accumulator, period, elapsed_time) ==
    LET sum == accumulator + elapsed_time
        reset == sum > period
    IN  [accumulator |-> IF reset THEN sum - period ELSE sum, reset |-> reset]

LoginServerKeepalivePacket == [header |-> LoginServerKeepalivePacket_header]
CharacterServerKeepalivePacket == [header |-> CharacterServerKeepalivePacket_header]
RequestServerTickPacket == [header |-> RequestServerTickPacket_header]

KeepAliveEnd(res, wr, login, character, map, ms) ==
    /\ login_keep_alive_timer' = login
    /\ character_keep_alive_timer' = character
    /\ map_keep_alive_timer' = map
    /\ map_stream' = ms
    /\ UNCHANGED <<friend_list, character_stream, login_data, characters, move_request, slot_count, player_name>>
    /\ Return(res, <<>>, wr)

\* a keepalive frame is sent when the timer rolled over and, for the character
\* and map servers, the connection is there
KeepAliveSendsOnReset(reset, open) == reset

KeepAliveSends(reset, open) == reset /\ open

\* keep_alive(delta_time, client_tick) for an elapsed time out of delta_times
KeepAlive(delta_times) ==
    /\ Idle
    /\ \E delta_time \in delta_times, wl \in BOOLEAN, wc \in BOOLEAN, wm \in BOOLEAN :
        LET op == "keep_alive"
            login == NetworkTimerUpdate(login_keep_alive_timer, LoginKeepAlivePeriod, delta_time)
            character == NetworkTimerUpdate(character_keep_alive_timer, CharacterKeepAlivePeriod, delta_time)
            map == NetworkTimerUpdate(map_keep_alive_timer, MapKeepAlivePeriod, delta_time)
            to_login == login.reset
            to_character == KeepAliveSends(character.reset, character_stream = Some)
            to_map == KeepAliveSends(map.reset, map_stream.open)
            wr1 == IF to_login THEN <<Written("login", LoginServerKeepalivePacket)>> ELSE <<>>
            wr2 == IF to_character
                   THEN Append(wr1, Written("character", CharacterServerKeepalivePacket))
                   ELSE wr1
            wr3 == IF to_map THEN Append(wr2, Written("map", RequestServerTickPacket)) ELSE wr2
        IN
        /\ login_keep_alive_timer + delta_time <= MaxAccumulator
        /\ character_keep_alive_timer + delta_time <= MaxAccumulator
        /\ map_keep_alive_timer + delta_time <= MaxAccumulator
        \* a write that does not happen cannot fail
        /\ to_login \/ wl
        /\ to_character \/ wc
        /\ to_map \/ wm
        /\ IF ~wl THEN
               KeepAliveEnd(WithArgument(Panic(op, "failed to send packet to login server"),
                                         delta_time), <<>>,
                            login.accumulator, character_keep_alive_timer, map_keep_alive_timer,
                            map_stream)
           ELSE IF ~wc THEN
               KeepAliveEnd(WithArgument(Panic(op, "failed to send packet to character server"),
                                         delta_time), wr1,
                            login.accumulator, character.accumulator, map_keep_alive_timer,
                            map_stream)
           ELSE IF ~wm THEN
               KeepAliveEnd(WithArgument(Panic(op, "failed to send packet to map server"),
                                         delta_time), wr2,
                            login.accumulator, character.accumulator, map.accumulator,
                            map_stream)
           ELSE
               KeepAliveEnd(WithArgument(Ok(op), delta_time), wr3,
                            login.accumulator, character.accumulator, map.accumulator,
                            IF to_map THEN WriteTo(map_stream, RequestServerTickPacket)
                            ELSE map_stream)

keep_alive == KeepAlive(Deltas)

-----------------------------------------------------------------------------
(* network_events *)

RestartResponsePacket(res) ==
    [header |-> RestartResponsePacket_header, truncated |-> FALSE, result |-> res]

DisconnectResponsePacket(res) ==
    [header |-> DisconnectResponsePacket_header, truncated |-> FALSE, result |-> res]

MapServerLoginSuccessPacket(client_tick, position) ==
    [header |-> MapServerLoginSuccessPacket_header, truncated |-> FALSE,
     client_tick |-> client_tick, position |-> position]

ServerTickPacket(client_tick) ==
    [header |-> ServerTickPacket_header, truncated |-> FALSE, client_tick |-> client_tick]

\* two of the frames that are decoded and produce no event
DisplayEmotionPacket == [header |-> DisplayEmotionPacket_header, truncated |-> FALSE]
UpdateAttackRangePacket == [header |-> UpdateAttackRangePacket_header, truncated |-> FALSE]

Disconnect == [type |-> "Disconnect"]
ChatMessage(text) == [type |-> "ChatMessage", text |-> text]
UpdateClientTick(client_tick) == [type |-> "UpdateClientTick", client_tick |-> client_tick]
SetPlayerPosition(position) == [type |-> "SetPlayerPosition", position |-> position]

MapServerFrames ==
    {RestartResponsePacket(c) : c \in {0, 1, 2}}
    \cup {DisconnectResponsePacket(c) : c \in {0, 1}}
    \cup {MapServerLoginSuccessPacket(7, <<3, 4>>), UnknownPacket}

\* What the socket reads of one poll return before a read would block: no
\* read, one read of one or two frames, or two reads.
MapServerReads ==
    {<<>>}
    \cup {<<ReadData(<<f>>)>> : f \in MapServerFrames}
    \cup {<<ReadData(<<f, g>>)>> :
             f \in {UnknownPacket, MapServerLoginSuccessPacket(7, <<3, 4>>)},
             g \in {RestartResponsePacket(1), DisconnectResponsePacket(1)}}
    \cup {<<ReadData(<<f>>), ReadData(<<DisconnectResponsePacket(0)>>)>> :
             f \in {UnknownPacket, RestartResponsePacket(0)}}

\* One branch of the if-let chain: whether a packet type matched, whether its
\* decode panicked, and the events pushed.
Handled(events) == [known |-> TRUE, panic |-> FALSE, events |-> events]
DecodePanic == [known |-> TRUE, panic |-> TRUE, events |-> <<>>]
NotHandled == [known |-> FALSE, panic |-> FALSE, events |-> <<>>]

\* mutant: every restart response is taken as the confirmation
RestartResponseEventsConfirmed(status) == <<Disconnect>>

\* RestartResponseStatus::Ok => events.push(NetworkEvent::Disconnect)
RestartResponseEvents(status) ==
    IF status = "Ok" THEN <<Disconnect>> ELSE <<ChatMessage("Failed to log out.")>>

\* DisconnectResponseStatus::Ok => events.push(NetworkEvent::Disconnect)
DisconnectResponseEvents(status) ==
    IF status = "Ok" THEN <<Disconnect>>
    ELSE <<ChatMessage("Please wait 10 seconds before trying to log out.")>>

\* mutant: the tick of the frame is not reported
ServerTickEventsDropped(packet) == <<>>

\* events.push(NetworkEvent::UpdateClientTick(packet.client_tick))
ServerTickEvents(packet) == <<UpdateClientTick(packet.client_tick)>>

\* mutant: the position is pushed before the tick
MapServerLoginSuccessEventsSwapped(packet) ==
    <<SetPlayerPosition(packet.position), UpdateClientTick(packet.client_tick)>>

\* events.push(UpdateClientTick(..)); events.push(SetPlayerPosition(..))
MapServerLoginSuccessEvents(packet) ==
    <<UpdateClientTick(packet.client_tick), SetPlayerPosition(packet.position)>>

\* the headers of the packet types the chain tries (those of this model)
DispatchedHeaders ==
    {DisplayEmotionPacket_header, UpdateAttackRangePacket_header, ServerTickPacket_header,
     MapServerLoginSuccessPacket_header, RestartResponsePacket_header,
     DisconnectResponsePacket_header}

HandlePacket(packet) ==
    IF packet.header \in {DisplayEmotionPacket_header, UpdateAttackRangePacket_header} THEN
        Handled(<<>>)
    ELSE IF packet.header = ServerTickPacket_header THEN
        Handled(ServerTickEvents(packet))
    ELSE IF packet.header = MapServerLoginSuccessPacket_header THEN
        Handled(MapServerLoginSuccessEvents(packet))
    ELSE IF packet.header = RestartResponsePacket_header THEN
        IF EnumDecode(RestartResponseStatus, packet.result) = Invalid THEN DecodePanic
        ELSE Handled(RestartResponseEvents(EnumDecode(RestartResponseStatus, packet.result)))
    ELSE IF packet.header = DisconnectResponsePacket_header THEN
        IF EnumDecode(DisconnectResponseStatus, packet.result) = Invalid THEN DecodePanic
        ELSE Handled(DisconnectResponseEvents(EnumDecode(DisconnectResponseStatus, packet.result)))
    ELSE NotHandled

\* while !byte_stream.is_empty() { ... else { break } }: the events pushed,
\* whether a decode panicked, and where the cursor is left.  A frame of a
\* dispatched type whose body is cut short panics in its decode.
RECURSIVE Dispatch(_)
Dispatch(stream) ==
    LET stop == [events |-> <<>>, panic |-> FALSE, offset |-> stream.offset]
        abort == [events |-> <<>>, panic |-> TRUE, offset |-> stream.offset]
    IN
    IF stream.offset > Len(stream.data) THEN stop
    ELSE IF Packet(stream).header \notin DispatchedHeaders THEN stop
    ELSE IF Malformed(stream) THEN abort
    ELSE LET handled == HandlePacket(Packet(stream)) IN
         IF ~handled.known THEN stop
         ELSE IF handled.panic THEN abort
         ELSE LET rest == Dispatch(Advance(stream))
              IN  [events |-> handled.events \o rest.events, panic |-> rest.panic,
                   offset |-> rest.offset]

\* while let Some(data) = self.try_get_data_from_map_server() { ... }
RECURSIVE PollEvents(_)
PollEvents(reads) ==
    IF reads = <<>> THEN [events |-> <<>>, panic |-> FALSE]
    ELSE LET first == Dispatch(ByteStream(Head(reads).data)) IN
         IF first.panic THEN first
         ELSE LET rest == PollEvents(Tail(reads))
              IN  [events |-> first.events \o rest.events, panic |-> rest.panic]

network_events ==
    /\ Idle
    /\ \E reads \in MapServerReads :
        LET op == "network_events"
            polled == PollEvents(reads)
        IN
        /\ map_stream.open \/ reads = <<>>
        /\ UNCHANGED <<session, timers>>
        /\ IF polled.panic THEN Return(Panic(op, "invalid enum"), reads, <<>>)
           ELSE Return([Ok(op) EXCEPT !.events = polled.events], reads, <<>>)

-----------------------------------------------------------------------------
Next ==
    \/ log_in
    \/ select_character
    \/ create_character
    \/ delete_character
    \/ switch_character_slot
    \/ request_switch_character_slot
    \/ cancel_switch_character_slot
    \/ log_out
    \/ disconnect_from_map_server
    \/ keep_alive
    \/ network_events
    \/ resume

Spec == Init /\ [][Next]_vars

-----------------------------------------------------------------------------
(* network_events, one iteration of its polling loop per step *)

\* data reads one network_events call is given before the socket runs dry
MaxReads == 2

\* `iterations` counts the iterations of the polling loop modulo this
MaxIterations == 3

\* the read length try_get_data_from_map_server continues
ContinuedReadLength == 1400

\* map_stream.read: the socket has no data yet
WouldBlock == [ok |-> FALSE, data |-> <<>>, would_block |-> TRUE]

\* a read that returned exactly ContinuedReadLength bytes
ContinuedRead(items) == [ok |-> TRUE, data |-> items, length |-> ContinuedReadLength]

\* One call of try_get_data_from_map_server on an open map connection, given
\* the outcomes of the socket reads it performs: None, Some(data), or the
\* panic of the unwrap.
RECURSIVE TryGetDataFromMapServer(_)
TryGetDataFromMapServer(reads) ==
    LET read == Head(reads) IN
    IF ~read.ok THEN [some |-> FALSE, panic |-> FALSE, data |-> <<>>]
    ELSE IF "length" \in DOMAIN read THEN
        LET second_buffer == TryGetDataFromMapServer(Tail(reads)) IN
        IF ~second_buffer.some THEN [some |-> FALSE, panic |-> TRUE, data |-> <<>>]
        ELSE [some |-> TRUE, panic |-> FALSE, data |-> read.data \o second_buffer.data]
    ELSE [some |-> TRUE, panic |-> FALSE, data |-> read.data]

\* The socket reads one call of try_get_data_from_map_server can meet: a read
\* that fails or would block, a zero-length read (the peer closed the
\* connection), a read of up to three frames, or a read of exactly
\* ContinuedReadLength bytes and the read that follows it.
MapSocketReads ==
    LET frames == {ServerTickPacket(8), RestartResponsePacket(1), DisconnectResponsePacket(1),
                   MapServerLoginSuccessPacket(7, <<3, 4>>), DisplayEmotionPacket,
                   UpdateAttackRangePacket, UnknownPacket, RestartResponsePacket(2),
                   Truncated(RestartResponsePacket_header),
                   \* bytes that begin in the middle of a frame
                   [header |-> RawData, truncated |-> FALSE]}
        pairs == {ServerTickPacket(8), DisplayEmotionPacket, UnknownPacket,
                  MapServerLoginSuccessPacket(7, <<3, 4>>),
                  Truncated(RestartResponsePacket_header)}
        triples == {ServerTickPacket(8), RestartResponsePacket(1), UnknownPacket}
    IN  {<<WouldBlock>>, <<ReadError>>, <<ReadData(<<>>)>>}
        \cup {<<ReadData(<<f>>)>> : f \in frames}
        \cup {<<ReadData(<<f, g>>)>> : f \in pairs, g \in pairs}
        \cup {<<ReadData(<<f, g, h>>)>> : f \in triples, g \in triples, h \in triples}
        \cup {<<ContinuedRead(<<ServerTickPacket(8)>>), r>> :
                 r \in {WouldBlock, ReadData(<<>>), ReadData(<<RestartResponsePacket(1)>>)}}

\* A session Spec reaches: logged in, with and without a map connection.
PollInit ==
    /\ character_stream = Some
    /\ map_stream \in {NoStream,
                        WriteTo(NewStream, MapServerLoginPacket(1, 1, 5, ClientTick, "Female"))}
    /\ login_data = <<LoginData(1, 5, "Female")>>
    /\ characters = <<CharacterInformation(1, 0, "alice")>>
    /\ move_request = <<>>
    /\ slot_count = 9
    /\ login_keep_alive_timer = 0
    /\ character_keep_alive_timer = 0
    /\ map_keep_alive_timer = 0
    /\ player_name = IF map_stream.open THEN "alice" ELSE ""
    /\ aborted = FALSE
    /\ result = Result("idle", "ok", "")
    /\ received = <<>>
    /\ written = <<>>
    /\ byte_stream = ByteStream(<<>>)
    /\ iterations = 0
    /\ updates = <<>>
    /\ friend_list = <<>>

\* let mut events = Vec::new();
network_events_call ==
    /\ Idle
    /\ result' = Result("network_events", "running", "")
    /\ byte_stream' = ByteStream(<<>>)
    /\ iterations' = 0
    /\ UNCHANGED <<session, timers, aborted, received, written, updates>>

\* mutant: the events of a later read are put in front
LoopEventsPrepended(events, pushed) == pushed \o events

\* events.push(..) during the dispatch of one read
LoopEvents(events, pushed) == events \o pushed

\* mutant: the poll ends at a buffer that was not consumed to its end
LoopStatusEndsAtBreak(dispatched, stream) ==
    IF dispatched.panic THEN "panic"
    ELSE IF dispatched.offset <= Len(stream.data) THEN "ok"
    ELSE "running"

\* after the inner loop: the decode panicked, or the outer loop goes on
LoopStatus(dispatched, stream) == IF dispatched.panic THEN "panic" ELSE "running"

\* while let Some(data) = self.try_get_data_from_map_server() { ... } events
network_events_loop ==
    /\ ~aborted
    /\ result.op = "network_events"
    /\ result.status = "running"
    /\ \E reads \in MapSocketReads :
        LET closed == received # <<>> /\ received[Len(received)] = ReadData(<<>>)
            with_data == SelectSeq(received, LAMBDA read : read.ok /\ read.data # <<>>)
            data == IF map_stream.open THEN TryGetDataFromMapServer(reads)
                    ELSE [some |-> FALSE, panic |-> FALSE, data |-> <<>>]
            stream == ByteStream(data.data)
            dispatched == Dispatch(stream)
            status == LoopStatus(dispatched, stream)
        IN
        \* without a connection nothing is read
        /\ map_stream.open \/ reads = <<WouldBlock>>
        \* a closed connection stays closed
        /\ closed => reads = <<ReadData(<<>>)>>
        /\ Len(with_data) >= MaxReads => reads \in {<<WouldBlock>>, <<ReadError>>, <<ReadData(<<>>)>>}
        /\ received' = IF closed \/ ~map_stream.open THEN received ELSE received \o reads
        /\ iterations' = (iterations + 1) % MaxIterations
        /\ IF data.panic THEN
               /\ result' = [result EXCEPT !.status = "panic", !.msg = "unwrap on None"]
               /\ aborted' = TRUE
               /\ UNCHANGED byte_stream
           ELSE IF ~data.some THEN
               /\ result' = [result EXCEPT !.status = "ok"]
               /\ UNCHANGED <<aborted, byte_stream>>
           ELSE
               /\ result' = [result EXCEPT
                                !.status = status,
                                !.msg = IF status = "panic" THEN "decode" ELSE "",
                                !.events = IF status = "panic" THEN @
                                           ELSE LoopEvents(@, dispatched.events)]
               /\ aborted' = (status = "panic")
               /\ byte_stream' = [stream EXCEPT !.offset = dispatched.offset]
        /\ UNCHANGED <<session, timers, written, updates>>

PollNext ==
    \/ network_events_call
    \/ network_events_loop
    \/ resume

\* the loop keeps running while the process runs
PollSpec == PollInit /\ [][PollNext]_vars /\ WF_vars(network_events_loop)

-----------------------------------------------------------------------------
(* keep_alive, tick after tick *)

\* elapsed seconds of a tick: shorter than every period, or longer than two of
\* them
TickDeltas == {3, 30}

keep_alive_tick == KeepAlive(TickDeltas)

\* The sessions keep_alive is called in: before log_in, logged in, and with a
\* map connection.
KeepAliveInit == Init \/ PollInit

KeepAliveNext ==
    \/ keep_alive_tick
    \/ resume

KeepAliveSpec == KeepAliveInit /\ [][KeepAliveNext]_vars

-----------------------------------------------------------------------------
(* NetworkTimer::update, call after call *)

\* calls of one history, and the seconds they add up to at most
MaxUpdates == 4
MaxTotal == 30

RECURSIVE TotalElapsed(_)
TotalElapsed(log) ==
    IF log = <<>> THEN 0 ELSE Head(log).elapsed_time + TotalElapsed(Tail(log))

\* NetworkTimer::new(Duration::from_secs(10)): the accumulator starts at zero
TimerInit == Init

\* timer.update(elapsed_time) on the timer with the period of ten seconds;
\* updates keeps the elapsed time and the returned value of every call
NetworkTimer_update ==
    /\ Len(updates) < MaxUpdates
    /\ \E elapsed_time \in 0..MaxTotal :
        LET timer == NetworkTimerUpdate(character_keep_alive_timer, CharacterKeepAlivePeriod,
                                        elapsed_time)
        IN
        /\ TotalElapsed(updates) + elapsed_time <= MaxTotal
        /\ character_keep_alive_timer' = timer.accumulator
        /\ updates' = Append(updates, [elapsed_time |-> elapsed_time, reset |-> timer.reset])
    /\ UNCHANGED <<session, login_keep_alive_timer, map_keep_alive_timer, aborted, result,
                   received, written, byte_stream, iterations>>

TimerNext == NetworkTimer_update

TimerSpec == TimerInit /\ [][TimerNext]_vars

-----------------------------------------------------------------------------
(* The slot-swap operations on a logged-in session (SlotSpec) *)

\* the slots a swap can be requested from
RosterSlots == {0, 1, 2}

\* logged in, with any roster and no request pending
SlotInit ==
    /\ character_stream = Some
    /\ map_stream = NoStream
    /\ login_data = <<LoginData(1, 5, "Female")>>
    /\ characters \in Rosters
    /\ move_request = <<>>
    /\ slot_count = 9
    /\ login_keep_alive_timer = 0
    /\ character_keep_alive_timer = 0
    /\ map_keep_alive_timer = 0
    /\ player_name = ""
    /\ aborted = FALSE
    /\ result = Result("idle", "ok", "")
    /\ received = <<>>
    /\ written = <<>>
    /\ byte_stream = ByteStream(<<>>)
    /\ iterations = 0
    /\ updates = <<>>
    /\ friend_list = <<>>

request_switch_from_any_slot == RequestSwitchCharacterSlot(RosterSlots)

SlotNext ==
    \/ request_switch_from_any_slot
    \/ cancel_switch_character_slot
    \/ switch_character_slot
    \/ resume

SlotSpec == SlotInit /\ [][SlotNext]_vars

-----------------------------------------------------------------------------
(* The friend list (FriendSpec)                                            *)

FriendListPacket_header == 513                \* 0x0201
AddFriendPacket_header == 514                 \* 0x0202
RemoveFriendPacket_header == 515              \* 0x0203
FriendOnlineStatusPacket_header == 518        \* 0x0206
FriendRequestPacket_header == 519             \* 0x0207
FriendRequestResponsePacket_header == 520     \* 0x0208
FriendRequestResultPacket_header == 521       \* 0x0209
NotifyFriendRemovedPacket_header == 522       \* 0x020a

FriendRequestResult ==
    << [name |-> "Accepted", value |-> <<>>],
       [name |-> "Rejected", value |-> <<>>],
       [name |-> "OwnFriendListFull", value |-> <<>>],
       [name |-> "OtherFriendListFull", value |-> <<>>] >>

\* longest friend list the model follows
MaxFriends == 3

\* the longest name add_friend sends
MaxFriendName == 24

Friend(account_id, character_id, name) ==
    [account_id |-> account_id, character_id |-> character_id, name |-> name]

\* friends that share an account id or a character id with another
Friends == {Friend(1, 1, "ann"), Friend(1, 2, "bob"), Friend(2, 1, "cat")}

FriendListPacket(friends) ==
    [header |-> FriendListPacket_header, truncated |-> FALSE, friends |-> friends]

FriendOnlineStatusPacket ==
    [header |-> FriendOnlineStatusPacket_header, truncated |-> FALSE]

FriendRequestPacket(friend) ==
    [header |-> FriendRequestPacket_header, truncated |-> FALSE, friend |-> friend]

FriendRequestResultPacket(res, friend) ==
    [header |-> FriendRequestResultPacket_header, truncated |-> FALSE, result |-> res,
     friend |-> friend]

NotifyFriendRemovedPacket(account_id, character_id) ==
    [header |-> NotifyFriendRemovedPacket_header, truncated |-> FALSE,
     account_id |-> account_id, character_id |-> character_id]

AddFriendPacket(name_length) == [header |-> AddFriendPacket_header, name_length |-> name_length]

RemoveFriendPacket(account_id, character_id) ==
    [header |-> RemoveFriendPacket_header, account_id |-> account_id,
     character_id |-> character_id]

FriendRequestResponsePacket(account_id, character_id, response) ==
    [header |-> FriendRequestResponsePacket_header, account_id |-> account_id,
     character_id |-> character_id, response |-> response]

FriendRequest(friend) == [type |-> "FriendRequest", friend |-> friend]

\* FriendRequestResultPacket::into_message: the format string and its argument
IntoMessage(res, friend) ==
    IF res = "Accepted" THEN <<"You have become friends with {}.", friend.name>>
    ELSE IF res = "Rejected" THEN <<"{} does not want to be friends with you.", friend.name>>
    ELSE IF res = "OwnFriendListFull" THEN <<"Your Friend List is full.">>
    ELSE <<"{}'s Friend List is full.", friend.name>>

\* *friends = packet.friends.into_iter().map(..).collect()
FriendListReplaced(friends, packet) == packet.friends

\* mutant: the friend is pushed whatever the result says
FriendListPushedAlways(friends, res, friend) == Append(friends, friend)

\* if packet.result == FriendRequestResult::Accepted { self.friend_list.push(..) }
FriendListPushed(friends, res, friend) ==
    IF res = "Accepted" THEN Append(friends, friend) ELSE friends

\* mutant: a friend goes when the account id alone matches
FriendListRetainedByAccount(friends, packet) ==
    LET kept(friend) == ~(friend.account_id = packet.account_id) IN SelectSeq(friends, kept)

\* friends.retain(|(friend, _)| !(account_id == .. && character_id == ..))
FriendListRetained(friends, packet) ==
    LET kept(friend) == ~(/\ friend.account_id = packet.account_id
                          /\ friend.character_id = packet.character_id)
    IN  SelectSeq(friends, kept)

FriendHeaders ==
    {FriendListPacket_header, FriendOnlineStatusPacket_header, FriendRequestPacket_header,
     FriendRequestResultPacket_header, NotifyFriendRemovedPacket_header}

\* The friend branches of the chain: the events pushed, whether the decode
\* panicked, and the friend list the branch leaves.
HandleFriendPacket(friends, packet) ==
    LET handled(events, list) == [panic |-> FALSE, events |-> events, friends |-> list]
    IN
    IF packet.header = FriendListPacket_header THEN
        handled(<<>>, FriendListReplaced(friends, packet))
    ELSE IF packet.header = FriendOnlineStatusPacket_header THEN
        handled(<<>>, friends)
    ELSE IF packet.header = FriendRequestPacket_header THEN
        handled(<<FriendRequest(packet.friend)>>, friends)
    ELSE IF packet.header = FriendRequestResultPacket_header THEN
        LET res == EnumDecode(FriendRequestResult, packet.result) IN
        IF res = Invalid THEN [panic |-> TRUE, events |-> <<>>, friends |-> friends]
        ELSE handled(<<ChatMessage(IntoMessage(res, packet.friend))>>,
                     FriendListPushed(friends, res, packet.friend))
    ELSE
        handled(<<>>, FriendListRetained(friends, packet))

\* The dispatch loop over one buffer, with the friend list it leaves: a
\* frame of a friend type goes to its branch, every other frame to the
\* branches of HandlePacket.
RECURSIVE DispatchWithFriends(_, _)
DispatchWithFriends(friends, stream) ==
    LET stop == [events |-> <<>>, panic |-> FALSE, friends |-> friends]
        abort == [events |-> <<>>, panic |-> TRUE, friends |-> friends]
    IN
    IF stream.offset > Len(stream.data) THEN stop
    ELSE IF Packet(stream).header \notin DispatchedHeaders \cup FriendHeaders THEN stop
    ELSE IF Malformed(stream) THEN abort
    ELSE LET packet == Packet(stream)
             handled == IF packet.header \in FriendHeaders
                        THEN HandleFriendPacket(friends, packet)
                        ELSE [panic |-> HandlePacket(packet).panic,
                              events |-> HandlePacket(packet).events, friends |-> friends]
         IN
         IF handled.panic THEN abort
         ELSE LET rest == DispatchWithFriends(handled.friends, Advance(stream))
              IN  [events |-> handled.events \o rest.events, panic |-> rest.panic,
                   friends |-> rest.friends]

\* frames the map server sends in this specification
FriendFrames ==
    {FriendListPacket(friends) : friends \in SeqsUpTo(Friends, 2)}
    \cup {FriendRequestPacket(friend) : friend \in Friends}
    \cup {FriendRequestResultPacket(res, friend) : res \in 0..4, friend \in Friends}
    \cup {NotifyFriendRemovedPacket(account_id, character_id) :
             account_id \in {1, 2}, character_id \in {1, 2}}
    \cup {FriendOnlineStatusPacket, ServerTickPacket(8), RestartResponsePacket(1),
          UnknownPacket, Truncated(FriendListPacket_header)}

\* one read of one or two frames
FriendReads ==
    {<<ReadData(<<f>>)>> : f \in FriendFrames}
    \cup {<<ReadData(<<f, g>>)>> : f \in FriendFrames, g \in FriendFrames}

\* network_events on a map connection that delivers one read
friend_network_events ==
    /\ Idle
    /\ map_stream.open
    /\ \E reads \in FriendReads :
        LET op == "network_events"
            dispatched == DispatchWithFriends(friend_list, ByteStream(reads[1].data))
        IN
        /\ Len(dispatched.friends) <= MaxFriends
        /\ friend_list' = dispatched.friends
        /\ UNCHANGED <<character_stream, map_stream, login_data, characters, move_request,
                       slot_count, player_name, timers>>
        /\ IF dispatched.panic THEN Return(Panic(op, "invalid enum"), reads, <<>>)
           ELSE Return([Ok(op) EXCEPT !.events = dispatched.events], reads, <<>>)

\* self.send_packet_to_map_server(packet)
SendPacketToMapServer(op, frame, arg) ==
    IF ~map_stream.open THEN
        MapStreamEnd(WithArgument(Panic(op, "no map server connection"), arg), <<>>, <<>>,
                     map_stream)
    ELSE \E w1 \in BOOLEAN :
        IF ~w1 THEN
            MapStreamEnd(WithArgument(Panic(op, "failed to send packet to map server"), arg),
                         <<>>, <<>>, map_stream)
        ELSE
            MapStreamEnd(WithArgument(Ok(op), arg), <<>>, <<Written("map", frame)>>,
                         WriteTo(map_stream, frame))

\* the lengths of the names add_friend is called with
NameLengths == {3, MaxFriendName, MaxFriendName + 1}

add_friend ==
    /\ Idle
    /\ \E name_length \in NameLengths :
        IF name_length > MaxFriendName THEN
            MapStreamEnd(WithArgument(Ok("add_friend"), name_length), <<>>, <<>>, map_stream)
        ELSE SendPacketToMapServer("add_friend", AddFriendPacket(name_length), name_length)

remove_friend ==
    /\ Idle
    /\ \E friend \in Friends :
        SendPacketToMapServer("remove_friend",
                              RemoveFriendPacket(friend.account_id, friend.character_id), friend)

reject_friend_request ==
    /\ Idle
    /\ \E friend \in Friends :
        SendPacketToMapServer("reject_friend_request",
                              FriendRequestResponsePacket(friend.account_id,
                                                          friend.character_id, "Reject"),
                              friend)

accept_friend_request ==
    /\ Idle
    /\ \E friend \in Friends :
        SendPacketToMapServer("accept_friend_request",
                              FriendRequestResponsePacket(friend.account_id,
                                                          friend.character_id, "Accept"),
                              friend)

FriendInit == PollInit

FriendNext ==
    \/ friend_network_events
    \/ add_friend
    \/ remove_friend
    \/ reject_friend_request
    \/ accept_friend_request
    \/ resume

FriendSpec == FriendInit /\ [][FriendNext]_vars

-----------------------------------------------------------------------------
(* The inventory bracket (InventorySpec)                                   *)

InventoyStartPacket_header == 2824            \* 0x0b08
RegularItemListPacket_header == 2825          \* 0x0b09
InventoyEndPacket_header == 2827              \* 0x0b0b
EquippableItemListPacket_header == 2873       \* 0x0b39

InventoyStartPacket == [header |-> InventoyStartPacket_header, truncated |-> FALSE]

InventoyEndPacket == [header |-> InventoyEndPacket_header, truncated |-> FALSE]

RegularItemInformation(index, item_id) == [index |-> index, item_id |-> item_id]

EquippableItemInformation(index, item_id, equip_position, equipped_position) ==
    [index |-> index, item_id |-> item_id, equip_position |-> equip_position,
     equipped_position |-> equipped_position]

RegularItemListPacket(item_information) ==
    [header |-> RegularItemListPacket_header, truncated |-> FALSE,
     item_information |-> item_information]

EquippableItemListPacket(item_information) ==
    [header |-> EquippableItemListPacket_header, truncated |-> FALSE,
     item_information |-> item_information]

Inventory(item_data) == [type |-> "Inventory", items |-> item_data]

\* item_data.push((index, item_id, EquipPosition::None, EquipPosition::None))
RegularItemData(item_information) ==
    [i \in 1..Len(item_information) |->
        <<item_information[i].index, item_information[i].item_id, "None", "None">>]

\* item_data.push((index, item_id, equip_position, equipped_position))
EquippableItemData(item_information) ==
    [i \in 1..Len(item_information) |->
        <<item_information[i].index, item_information[i].item_id,
          item_information[i].equip_position, item_information[i].equipped_position>>]

\* mutant: the bracket ends with what was collected so far
BracketPanicPartial(stream) == [panic |-> FALSE, item_data |-> <<>>, offset |-> stream.offset]

\* panic!("unexpected packet with header: {:x?}", ..), or the panic of a decode
BracketPanic(stream) == [panic |-> TRUE, item_data |-> <<>>, offset |-> stream.offset]

\* while InventoyEndPacket::try_from_bytes(&mut byte_stream).is_err() { .. }:
\* the items collected, whether the loop panicked, and the cursor behind the
\* end frame.  The loop does not look whether the buffer has bytes left: at
\* the end of the buffer no packet type matches.
RECURSIVE InventoryBracket(_)
InventoryBracket(stream) ==
    IF stream.offset > Len(stream.data) THEN BracketPanic(stream)
    ELSE LET packet == Packet(stream) IN
         IF packet.header = InventoyEndPacket_header THEN
             IF Malformed(stream) THEN BracketPanic(stream)
             ELSE [panic |-> FALSE, item_data |-> <<>>, offset |-> stream.offset + 1]
         ELSE IF packet.header \in {RegularItemListPacket_header,
                                    EquippableItemListPacket_header} THEN
             IF Malformed(stream) THEN BracketPanic(stream)
             ELSE LET pushed == IF packet.header = RegularItemListPacket_header
                                THEN RegularItemData(packet.item_information)
                                ELSE EquippableItemData(packet.item_information)
                      rest == InventoryBracket(Advance(stream))
                  IN  [rest EXCEPT !.item_data = pushed \o @]
         ELSE BracketPanic(stream)

\* The dispatch loop over one buffer with the inventory branch; every other
\* frame goes to the branches of HandlePacket.
RECURSIVE DispatchWithInventory(_)
DispatchWithInventory(stream) ==
    LET stop == [events |-> <<>>, panic |-> FALSE]
        abort == [events |-> <<>>, panic |-> TRUE]
    IN
    IF stream.offset > Len(stream.data) THEN stop
    ELSE IF Packet(stream).header \notin DispatchedHeaders \cup {InventoyStartPacket_header}
         THEN stop
    ELSE IF Malformed(stream) THEN abort
    ELSE IF Packet(stream).header = InventoyStartPacket_header THEN
        LET bracket == InventoryBracket(Advance(stream)) IN
        IF bracket.panic THEN abort
        ELSE LET rest == DispatchWithInventory([stream EXCEPT !.offset = bracket.offset])
             IN  [events |-> <<Inventory(bracket.item_data)>> \o rest.events,
                  panic |-> rest.panic]
    ELSE LET handled == HandlePacket(Packet(stream)) IN
         IF handled.panic THEN abort
         ELSE LET rest == DispatchWithInventory(Advance(stream))
              IN  [events |-> handled.events \o rest.events, panic |-> rest.panic]

\* longest read of this specification, in frames
MaxInventoryFrames == 4

\* frames the map server sends in this specification
InventoryFrames ==
    {InventoyStartPacket, InventoyEndPacket, ServerTickPacket(8), UnknownPacket,
     RegularItemListPacket(<<RegularItemInformation(2, 501)>>),
     RegularItemListPacket(<<RegularItemInformation(3, 502), RegularItemInformation(4, 503)>>),
     EquippableItemListPacket(<<EquippableItemInformation(5, 1201, "RightHand", "None"),
                                EquippableItemInformation(6, 2301, "Armor", "Armor")>>),
     Truncated(EquippableItemListPacket_header)}

InventoryReads ==
    {<<ReadData(frames)>> : frames \in SeqsUpTo(InventoryFrames, MaxInventoryFrames) \ {<<>>}}

\* network_events on a map connection that delivers one read
inventory_network_events ==
    /\ Idle
    /\ map_stream.open
    /\ \E reads \in InventoryReads :
        LET op == "network_events"
            dispatched == DispatchWithInventory(ByteStream(reads[1].data))
        IN
        /\ UNCHANGED <<session, timers>>
        /\ IF dispatched.panic THEN Return(Panic(op, "unexpected packet"), reads, <<>>)
           ELSE Return([Ok(op) EXCEPT !.events = dispatched.events], reads, <<>>)

InventoryInit == PollInit

InventoryNext ==
    \/ inventory_network_events
    \/ resume

InventorySpec == InventoryInit /\ [][InventoryNext]_vars

-----------------------------------------------------------------------------
(* Wire codecs, on byte streams (CodecSpec)                                *)
(*                                                                         *)
(* Under CodecSpec `byte_stream` is a cursor on bytes (0..255) and every   *)
(* step applies one decoder or encoder to an input of the environment:     *)
(* `result.op` names it, `result.arg` holds its input and its value, and   *)
(* `byte_stream` is the stream it left behind.  The primitive readers      *)
(* (ByteStream, the integer and String codecs, the derives) are not part   *)
(* of the repository's src/ and follow the documented contract: integers   *)
(* are little-endian, a read past the end fails, a string of length hint n *)
(* takes n bytes and ends at its first zero byte.                          *)

RECURSIVE Sum(_)
Sum(widths) == IF widths = <<>> THEN 0 ELSE Head(widths) + Sum(Tail(widths))

RECURSIVE Power(_, _)
Power(base, exponent) == IF exponent = 0 THEN 1 ELSE base * Power(base, exponent - 1)

\* to_bytes of an unsigned integer of `width` bytes
ToLittleEndian(value, width) == [i \in 1..width |-> (value \div Power(256, i - 1)) % 256]

\* from_bytes of an unsigned integer
RECURSIVE FromLittleEndian(_)
FromLittleEndian(bytes) ==
    IF bytes = <<>> THEN 0 ELSE Head(bytes) + 256 * FromLittleEndian(Tail(bytes))

Zeros(count) == [i \in 1..count |-> 0]

Letters(count) == [i \in 1..count |-> 65]

Remaining(stream) == Len(stream.data) - stream.offset + 1

\* byte_stream.slice(count): the next count bytes, or a failed read
Slice(stream, count) ==
    IF count >= 0 /\ count <= Remaining(stream)
    THEN [ok |-> TRUE,
          value |-> SubSeq(stream.data, stream.offset, stream.offset + count - 1),
          stream |-> [stream EXCEPT !.offset = @ + count]]
    ELSE [ok |-> FALSE, value |-> <<>>, stream |-> stream]

\* String::from_bytes with a length hint: the bytes before the first zero
RECURSIVE TrimAtZero(_)
TrimAtZero(bytes) ==
    IF bytes = <<>> \/ Head(bytes) = 0 THEN <<>>
    ELSE <<Head(bytes)>> \o TrimAtZero(Tail(bytes))

\* Every packet type the module declares, in the order of declaration, with
\* the value of its #[header(..)] attribute.
Catalog ==
    << [name |-> "LoginServerLoginPacket", header |-> 100],
       [name |-> "LoginServerLoginSuccessPacket", header |-> 2756],
       [name |-> "CharacterServerLoginSuccessPacket", header |-> 2093],
       [name |-> "Packet6b00", header |-> 107], [name |-> "Packet180b", header |-> 2840],
       [name |-> "MapServerLoginSuccessPacket", header |-> 747],
       [name |-> "LoginFailedPacket", header |-> 129],
       [name |-> "MapServerUnavailablePacket", header |-> 2112],
       [name |-> "LoginFailedPacket2", header |-> 2110],
       [name |-> "CharacterSelectionFailedPacket", header |-> 108],
       [name |-> "CharacterSelectionSuccessPacket", header |-> 2757],
       [name |-> "CharacterCreationFailedPacket", header |-> 110],
       [name |-> "LoginServerKeepalivePacket", header |-> 512],
       [name |-> "CharacterServerLoginPacket", header |-> 101],
       [name |-> "MapServerLoginPacket", header |-> 1078],
       [name |-> "Packet8302", header |-> 643],
       [name |-> "CreateCharacterPacket", header |-> 2617],
       [name |-> "CreateCharacterSuccessPacket", header |-> 2927],
       [name |-> "RequestCharacterListPacket", header |-> 2465],
       [name |-> "RequestCharacterListSuccessPacket", header |-> 2930],
       [name |-> "RequestPlayerMovePacket", header |-> 2177],
       [name |-> "RequestWarpToMapPacket", header |-> 320],
       [name |-> "EntityMovePacket", header |-> 134],
       [name |-> "EntityStopMovePacket", header |-> 136],
       [name |-> "PlayerMovePacket", header |-> 135],
       [name |-> "DeleteCharacterPacket", header |-> 507],
       [name |-> "CharacterDeletionFailedPacket", header |-> 112],
       [name |-> "CharacterDeletionSuccessPacket", header |-> 111],
       [name |-> "SelectCharacterPacket", header |-> 102],
       [name |-> "ServerMessagePacket", header |-> 142],
       [name |-> "RequestDetailsPacket", header |-> 872],
       [name |-> "RequestPlayerDetailsSuccessPacket", header |-> 2608],
       [name |-> "RequestEntityDetailsSuccessPacket", header |-> 2783],
       [name |-> "NewMailStatusPacket", header |-> 2535],
       [name |-> "AchievementUpdatePacket", header |-> 2596],
       [name |-> "AchievementListPacket", header |-> 2595],
       [name |-> "CriticalWeightUpdatePacket", header |-> 2782],
       [name |-> "SpriteChangePacket", header |-> 471],
       [name |-> "InventoyStartPacket", header |-> 2824],
       [name |-> "InventoyEndPacket", header |-> 2827],
       [name |-> "RegularItemListPacket", header |-> 2825],
       [name |-> "EquippableItemListPacket", header |-> 2873],
       [name |-> "EquippableSwitchItemListPacket", header |-> 2715],
       [name |-> "MapTypePacket", header |-> 2459],
       [name |-> "Broadcast2MessagePacket", header |-> 451],
       [name |-> "BroadcastMessagePacket", header |-> 154],
       [name |-> "OverheadMessagePacket", header |-> 141],
       [name |-> "EntityMessagePacket", header |-> 705],
       [name |-> "DisplayEmotionPacket", header |-> 192],
       [name |-> "UpdateStatusPacket", header |-> 176],
       [name |-> "StatusChangeSequencePacket", header |-> 406],
       [name |-> "InitialStatusPacket", header |-> 189],
       [name |-> "UpdateStatusPacket1", header |-> 321],
       [name |-> "UpdateStatusPacket2", header |-> 2763],
       [name |-> "UpdateStatusPacket3", header |-> 190],
       [name |-> "UpdateAttackRangePacket", header |-> 314],
       [name |-> "SwitchCharacterSlotPacket", header |-> 2260],
       [name |-> "RequestActionPacket", header |-> 1079],
       [name |-> "GlobalMessagePacket", header |-> 243],
       [name |-> "RequestPlayerAttackFailedPacket", header |-> 313],
       [name |-> "UpdateEntityHealthPointsPacket", header |-> 2423],
       [name |-> "DamagePacket", header |-> 2248], [name |-> "ServerTickPacket", header |-> 127],
       [name |-> "RequestServerTickPacket", header |-> 864],
       [name |-> "SwitchCharacterSlotResponsePacket", header |-> 2928],
       [name |-> "ChangeMapPacket", header |-> 145],
       [name |-> "EntityDisappearedPacket", header |-> 128],
       [name |-> "MovingEntityAppearedPacket", header |-> 2557],
       [name |-> "EntityAppearedPacket", header |-> 2558],
       [name |-> "EntityAppeared2Packet", header |-> 2559],
       [name |-> "UpdateSkillTreePacket", header |-> 271],
       [name |-> "UpdateHotkeysPacket", header |-> 2848],
       [name |-> "UpdatePartyInvitationStatePacket", header |-> 713],
       [name |-> "UpdateShowEquipPacket", header |-> 730],
       [name |-> "UpdateConfigurationPacket", header |-> 729],
       [name |-> "NavigateToMonsterPacket", header |-> 2274],
       [name |-> "MarkMinimapPositionPacket", header |-> 324],
       [name |-> "NextButtonPacket", header |-> 181],
       [name |-> "CloseButtonPacket", header |-> 182],
       [name |-> "DialogMenuPacket", header |-> 183],
       [name |-> "DisplaySpecialEffectPacket", header |-> 499],
       [name |-> "DisplaySkillCooldownPacket", header |-> 1085],
       [name |-> "DisplaySkillEffectAndDamagePacket", header |-> 478],
       [name |-> "DisplayPlayerHealEffect", header |-> 2599],
       [name |-> "DisplaySkillEffectNoDamagePacket", header |-> 2507],
       [name |-> "StatusChangePacket", header |-> 2435],
       [name |-> "QuestNotificationPacket1", header |-> 2553],
       [name |-> "HuntingQuestNotificationPacket", header |-> 2302],
       [name |-> "HuntingQuestUpdateObjectivePacket", header |-> 2554],
       [name |-> "QuestRemovedPacket", header |-> 692],
       [name |-> "QuestListPacket", header |-> 2552],
       [name |-> "VisualEffectPacket", header |-> 411],
       [name |-> "DisplayGainedExperiencePacket", header |-> 2764],
       [name |-> "DisplayImagePacket", header |-> 435],
       [name |-> "StateChangePacket", header |-> 553],
       [name |-> "ItemPickupPacket", header |-> 2881],
       [name |-> "RemoveItemFromInventoryPacket", header |-> 2042],
       [name |-> "QuestEffectPacket", header |-> 1094],
       [name |-> "NpcDialogPacket", header |-> 180],
       [name |-> "MapLoadedPacket", header |-> 125],
       [name |-> "CharacterServerKeepalivePacket", header |-> 391],
       [name |-> "StartDialogPacket", header |-> 144],
       [name |-> "NextDialogPacket", header |-> 185],
       [name |-> "CloseDialogPacket", header |-> 326],
       [name |-> "ChooseDialogOptionPacket", header |-> 184],
       [name |-> "RequestEquipItemPacket", header |-> 2456],
       [name |-> "RequestEquipItemStatusPacket", header |-> 2457],
       [name |-> "RequestUnequipItemPacket", header |-> 171],
       [name |-> "RequestUnequipItemStatusPacket", header |-> 2458],
       [name |-> "RestartPacket", header |-> 178],
       [name |-> "RestartResponsePacket", header |-> 179],
       [name |-> "DisconnectResponsePacket", header |-> 395],
       [name |-> "UseSkillAtIdPacket", header |-> 1080],
       [name |-> "UseSkillOnGroundPacket", header |-> 2804],
       [name |-> "StartUseSkillPacket", header |-> 2832],
       [name |-> "EndUseSkillPacket", header |-> 2833],
       [name |-> "UseSkillSuccessPacket", header |-> 2043],
       [name |-> "ToUseSkillSuccessPacket", header |-> 272],
       [name |-> "NotifySkillUnitPacket", header |-> 2506],
       [name |-> "NotifyGroundSkillPacket", header |-> 279],
       [name |-> "SkillUnitDisappearPacket", header |-> 288],
       [name |-> "AddFriendPacket", header |-> 514],
       [name |-> "RemoveFriendPacket", header |-> 515],
       [name |-> "NotifyFriendRemovedPacket", header |-> 522],
       [name |-> "FriendListPacket", header |-> 513],
       [name |-> "FriendOnlineStatusPacket", header |-> 518],
       [name |-> "FriendRequestPacket", header |-> 519],
       [name |-> "FriendRequestResponsePacket", header |-> 520],
       [name |-> "FriendRequestResultPacket", header |-> 521],
       [name |-> "PartyInvitePacket", header |-> 710],
       [name |-> "ReputationPacket", header |-> 2957],
       [name |-> "ClanInfoPacket", header |-> 2442],
       [name |-> "ClanOnlineCountPacket", header |-> 2440],
       [name |-> "ChangeMapCellPacket", header |-> 402] >>

\* The packet types network_events tries at the cursor, in the order of its
\* chain of if let Ok(..) = X::try_from_bytes(..).
TrialChain ==
    << "BroadcastMessagePacket", "Broadcast2MessagePacket", "OverheadMessagePacket",
       "ServerMessagePacket", "EntityMessagePacket", "DisplayEmotionPacket", "EntityMovePacket",
       "EntityStopMovePacket", "PlayerMovePacket", "ChangeMapPacket", "EntityAppearedPacket",
       "EntityAppeared2Packet", "MovingEntityAppearedPacket", "EntityDisappearedPacket",
       "UpdateStatusPacket", "UpdateStatusPacket1", "UpdateStatusPacket2", "UpdateStatusPacket3",
       "UpdateAttackRangePacket", "NewMailStatusPacket", "AchievementUpdatePacket",
       "AchievementListPacket", "CriticalWeightUpdatePacket", "SpriteChangePacket",
       "InventoyStartPacket", "InventoyEndPacket", "RegularItemListPacket",
       "EquippableItemListPacket", "EquippableSwitchItemListPacket", "MapTypePacket",
       "UpdateSkillTreePacket", "UpdateHotkeysPacket", "InitialStatusPacket",
       "UpdatePartyInvitationStatePacket", "UpdateShowEquipPacket", "UpdateConfigurationPacket",
       "NavigateToMonsterPacket", "MarkMinimapPositionPacket", "NextButtonPacket",
       "CloseButtonPacket", "DialogMenuPacket", "DisplaySpecialEffectPacket",
       "DisplaySkillCooldownPacket", "DisplaySkillEffectAndDamagePacket",
       "DisplaySkillEffectNoDamagePacket", "DisplayPlayerHealEffect", "StatusChangePacket",
       "QuestNotificationPacket1", "HuntingQuestNotificationPacket",
       "HuntingQuestUpdateObjectivePacket", "QuestRemovedPacket", "QuestListPacket",
       "VisualEffectPacket", "DisplayGainedExperiencePacket", "DisplayImagePacket",
       "StateChangePacket", "QuestEffectPacket", "ItemPickupPacket",
       "RemoveItemFromInventoryPacket", "ServerTickPacket", "RequestPlayerDetailsSuccessPacket",
       "RequestEntityDetailsSuccessPacket", "UpdateEntityHealthPointsPacket",
       "RequestPlayerAttackFailedPacket", "DamagePacket", "NpcDialogPacket",
       "RequestEquipItemStatusPacket", "RequestUnequipItemStatusPacket", "Packet8302",
       "Packet180b", "MapServerLoginSuccessPacket", "RestartResponsePacket",
       "DisconnectResponsePacket", "UseSkillSuccessPacket", "ToUseSkillSuccessPacket",
       "NotifySkillUnitPacket", "SkillUnitDisappearPacket", "NotifyGroundSkillPacket",
       "FriendListPacket", "FriendOnlineStatusPacket", "FriendRequestPacket",
       "FriendRequestResultPacket", "NotifyFriendRemovedPacket", "PartyInvitePacket",
       "StatusChangeSequencePacket", "ReputationPacket", "ClanInfoPacket",
       "ClanOnlineCountPacket", "ChangeMapCellPacket" >>

\* mutant: only the low byte of a header is compared
PacketHeaderLowByte(name) ==
    (Catalog[CHOOSE i \in 1..Len(Catalog) : Catalog[i].name = name].header) % 256

\* Packet::header() of the packet type with this name
PacketHeader(name) ==
    Catalog[CHOOSE i \in 1..Len(Catalog) : Catalog[i].name = name].header

\* The length-prefixed packet types whose last field is a string: the widths
\* of the fields between packet_length and the string, and the constant k of
\* #[length_hint(self.packet_length - k)].
LengthPrefixedPackets ==
    << [name |-> "ServerMessagePacket", fields |-> <<>>, correction |-> 4],
       [name |-> "BroadcastMessagePacket", fields |-> <<>>, correction |-> 2],
       [name |-> "OverheadMessagePacket", fields |-> <<4>>, correction |-> 6],
       [name |-> "EntityMessagePacket", fields |-> <<4, 4>>, correction |-> 12],
       [name |-> "Broadcast2MessagePacket", fields |-> <<4, 2, 2, 2, 2>>, correction |-> 16],
       [name |-> "DialogMenuPacket", fields |-> <<4>>, correction |-> 8],
       [name |-> "NpcDialogPacket", fields |-> <<4>>, correction |-> 8],
       [name |-> "InventoyStartPacket", fields |-> <<1>>, correction |-> 5],
       [name |-> "MapServerUnavailablePacket", fields |-> <<>>, correction |-> 4] >>

\* the header and the packet_length field
PrefixBytes == 4

\* A frame of the packet type with `length` bytes of string, whose
\* packet_length field says `packet_length`.
LengthPrefixedFrame(packet, length, packet_length) ==
    ToLittleEndian(PacketHeader(packet.name), 2) \o ToLittleEndian(packet_length, 2)
        \o Zeros(Sum(packet.fields)) \o Letters(length)

TrueLength(packet, length) == PrefixBytes + Sum(packet.fields) + length

\* X::try_from_bytes of a length-prefixed packet type: the header is compared,
\* packet_length and the fixed fields are read, and the string takes
\* packet_length - k bytes (u16 arithmetic: a packet_length below k overflows).
TryFromBytesLengthPrefixed(packet, stream) ==
    LET header == Slice(stream, 2)
        packet_length == Slice(header.stream, 2)
        fields == Slice(packet_length.stream, Sum(packet.fields))
        length_hint == FromLittleEndian(packet_length.value) - packet.correction
        string == Slice(fields.stream, length_hint)
    IN
    IF ~header.ok \/ FromLittleEndian(header.value) # PacketHeader(packet.name)
    THEN [status |-> "err", stream |-> stream, packet_length |-> 0, string |-> <<>>]
    ELSE IF ~packet_length.ok \/ ~fields.ok \/ length_hint < 0 \/ ~string.ok
    THEN [status |-> "panic", stream |-> stream, packet_length |-> 0, string |-> <<>>]
    ELSE [status |-> "ok", stream |-> string.stream,
          packet_length |-> FromLittleEndian(packet_length.value),
          string |-> TrimAtZero(string.value)]

\* longest string of a frame, and how far a packet_length may be off
MaxString == 3
MaxPrefixError == 1

\* what follows the frame in the buffer: nothing, or a server-tick frame
Followers == {<<>>, ToLittleEndian(ServerTickPacket_header, 2) \o ToLittleEndian(8, 4)}

\* no decoder has run yet: nothing pending and the cursor on an empty buffer
CodecReady == Idle /\ byte_stream = ByteStream(<<>>)

CodecEnd(op, status, arg, stream) ==
    /\ result' = WithArgument(Result(op, status, ""), arg)
    /\ byte_stream' = stream
    /\ UNCHANGED <<session, timers, aborted, received, written, iterations, updates>>

\* a buffer that starts with a length-prefixed frame is decoded
try_from_bytes_length_prefixed ==
    /\ CodecReady
    /\ \E i \in 1..Len(LengthPrefixedPackets), length \in 0..MaxString,
          prefix_error \in (0 - MaxPrefixError)..MaxPrefixError, follower \in Followers :
           LET packet == LengthPrefixedPackets[i]
               packet_length == TrueLength(packet, length) + prefix_error
               frame == LengthPrefixedFrame(packet, length, packet_length)
               decoded == TryFromBytesLengthPrefixed(packet, ByteStream(frame \o follower))
           IN
           CodecEnd("try_from_bytes", decoded.status,
                    [packet |-> packet, true_length |-> TrueLength(packet, length),
                     packet_length |-> packet_length, decoded |-> decoded.string],
                    decoded.stream)

-----------------------------------------------------------------------------
(* WorldPosition and ItemIndex *)

RECURSIVE BitAnd(_, _)
BitAnd(a, b) ==
    IF a = 0 \/ b = 0 THEN 0
    ELSE (IF a % 2 = 1 /\ b % 2 = 1 THEN 1 ELSE 0) + 2 * BitAnd(a \div 2, b \div 2)

RECURSIVE BitOr(_, _)
BitOr(a, b) ==
    IF a = 0 THEN b
    ELSE IF b = 0 THEN a
    ELSE (IF a % 2 = 1 \/ b % 2 = 1 THEN 1 ELSE 0) + 2 * BitOr(a \div 2, b \div 2)

\* value << bits and value >> bits
ShiftLeft(value, bits) == value * Power(2, bits)
ShiftRight(value, bits) == value \div Power(2, bits)

\* `value as u8`, and the shift of a u8, which drops the bits above the eighth
AsU8(value) == value % 256
ShiftLeftU8(value, bits) == AsU8(ShiftLeft(value, bits))

\* WorldPosition::to_bytes
WorldPositionToBytes(position) ==
    << AsU8(ShiftRight(position.x, 2)),
       BitOr(AsU8(ShiftLeft(position.x, 6)), AsU8(BitAnd(ShiftRight(position.y, 4), 63))),
       AsU8(ShiftLeft(position.y, 4)) >>

\* WorldPosition::from_bytes: the three bytes of the slice are u8 values and
\* so are x and y until their cast to usize
WorldPositionFromBytes(stream) ==
    LET slice == Slice(stream, 3)
        coordinates == slice.value
        x == BitOr(ShiftRight(coordinates[2], 6), ShiftLeftU8(coordinates[1], 2))
        y == BitOr(ShiftRight(coordinates[3], 4), ShiftLeftU8(BitAnd(coordinates[2], 63), 4))
    IN
    IF ~slice.ok THEN [status |-> "panic", value |-> <<>>, stream |-> stream]
    ELSE [status |-> "ok", value |-> <<[x |-> x, y |-> y]>>, stream |-> slice.stream]

\* the x and y of the positions encoded and decoded again
MaxCoordinate == 1023
SampleCoordinates == {0, 1, 15, 16, 255, 256, 700, 1023}

world_position_round_trip ==
    /\ CodecReady
    /\ \E x \in 0..MaxCoordinate, y \in SampleCoordinates :
           LET position == [x |-> x, y |-> y]
               decoded == WorldPositionFromBytes(ByteStream(WorldPositionToBytes(position)))
           IN
           CodecEnd("WorldPosition", decoded.status,
                    [position |-> position, decoded |-> decoded.value], decoded.stream)

\* WorldPosition2::from_bytes: the six bytes are widened to usize first
WorldPosition2FromBytes(stream) ==
    LET slice == Slice(stream, 6)
        coordinates == slice.value
        x1 == BitOr(ShiftRight(coordinates[2], 6), ShiftLeft(coordinates[1], 2))
        y1 == BitOr(ShiftRight(coordinates[3], 4), ShiftLeft(BitAnd(coordinates[2], 63), 4))
        x2 == BitOr(ShiftRight(coordinates[4], 2), ShiftLeft(BitAnd(coordinates[3], 15), 6))
        y2 == BitOr(coordinates[5], ShiftLeft(BitAnd(coordinates[4], 3), 8))
    IN
    IF ~slice.ok THEN [status |-> "panic", value |-> <<>>, stream |-> stream]
    ELSE [status |-> "ok", value |-> <<[x1 |-> x1, y1 |-> y1, x2 |-> x2, y2 |-> y2]>>,
          stream |-> slice.stream]

\* the values of the bytes decoded
SampleBytes == {0, 1, 15, 63, 64, 255}

\* six bytes are decoded as a WorldPosition2, the first three of them as a
\* WorldPosition
world_position2_from_bytes ==
    /\ CodecReady
    /\ \E bytes \in [1..5 -> SampleBytes], direction \in {0, 255} :
           LET buffer == [i \in 1..6 |-> IF i <= 5 THEN bytes[i] ELSE direction]
               decoded == WorldPosition2FromBytes(ByteStream(buffer))
               position == WorldPositionFromBytes(ByteStream(buffer))
           IN
           CodecEnd("WorldPosition2", decoded.status,
                    [bytes |-> buffer, decoded |-> decoded.value, position |-> position.value],
                    decoded.stream)

\* mutant: the offset is applied the other way round when decoding
ItemIndexFromWireAdding(value) == value + 2

\* the u16 the wire value of an ItemIndex is turned into, and back
ItemIndexFromWire(value) == value - 2

ItemIndexToWire(value) == value + 2

\* u16 arithmetic: out of range, the build either checks (and panics) or wraps
U16(value, overflow_checks) ==
    IF value \in 0..(Power(256, 2) - 1) THEN [ok |-> TRUE, value |-> value]
    ELSE IF overflow_checks THEN [ok |-> FALSE, value |-> 0]
    ELSE [ok |-> TRUE, value |-> value % Power(256, 2)]

\* ItemIndex::from_bytes
ItemIndexFromBytes(stream, overflow_checks) ==
    LET slice == Slice(stream, 2)
        index == U16(ItemIndexFromWire(FromLittleEndian(slice.value)), overflow_checks)
    IN
    IF ~slice.ok \/ ~index.ok THEN [status |-> "panic", value |-> <<>>, stream |-> stream]
    ELSE [status |-> "ok", value |-> <<index.value>>, stream |-> slice.stream]

\* ItemIndex::to_bytes
ItemIndexToBytes(index, overflow_checks) ==
    LET wire == U16(ItemIndexToWire(index), overflow_checks)
    IN  IF ~wire.ok THEN [status |-> "panic", value |-> <<>>]
        ELSE [status |-> "ok", value |-> ToLittleEndian(wire.value, 2)]

\* every 16-bit wire value is decoded and the index encoded again
item_index_round_trip ==
    /\ CodecReady
    /\ \E wire \in 0..(Power(256, 2) - 1), overflow_checks \in BOOLEAN :
           LET decoded == ItemIndexFromBytes(ByteStream(ToLittleEndian(wire, 2)), overflow_checks)
               encoded == IF decoded.status = "ok"
                          THEN ItemIndexToBytes(decoded.value[1], overflow_checks)
                          ELSE [status |-> "panic", value |-> <<>>]
           IN
           CodecEnd("ItemIndex", encoded.status,
                    [wire |-> wire, index |-> decoded.value, encoded |-> encoded.value],
                    decoded.stream)

-----------------------------------------------------------------------------
(* StatusType *)

\* The arms of the match in StatusType::from_bytes: the code, the variant and
\* the widths in bytes of the values read for it.
StatusTypes ==
    << [code |-> 0, name |-> "MovementSpeed", fields |-> <<4>>],
       [code |-> 1, name |-> "BaseExperience", fields |-> <<8>>],
       [code |-> 2, name |-> "JobExperience", fields |-> <<8>>],
       [code |-> 3, name |-> "Karma", fields |-> <<4>>],
       [code |-> 4, name |-> "Manner", fields |-> <<4>>],
       [code |-> 5, name |-> "HealthPoints", fields |-> <<4>>],
       [code |-> 6, name |-> "MaximumHealthPoints", fields |-> <<4>>],
       [code |-> 7, name |-> "SpellPoints", fields |-> <<4>>],
       [code |-> 8, name |-> "MaximumSpellPoints", fields |-> <<4>>],
       [code |-> 9, name |-> "StatusPoint", fields |-> <<4>>],
       [code |-> 11, name |-> "BaseLevel", fields |-> <<4>>],
       [code |-> 12, name |-> "SkillPoint", fields |-> <<4>>],
       [code |-> 13, name |-> "Strength", fields |-> <<4, 4>>],
       [code |-> 14, name |-> "Agility", fields |-> <<4, 4>>],
       [code |-> 15, name |-> "Vitality", fields |-> <<4, 4>>],
       [code |-> 16, name |-> "Intelligence", fields |-> <<4, 4>>],
       [code |-> 17, name |-> "Dexterity", fields |-> <<4, 4>>],
       [code |-> 18, name |-> "Luck", fields |-> <<4, 4>>],
       [code |-> 20, name |-> "Zeny", fields |-> <<4>>],
       [code |-> 22, name |-> "NextBaseExperience", fields |-> <<8>>],
       [code |-> 23, name |-> "NextJobExperience", fields |-> <<8>>],
       [code |-> 24, name |-> "Weight", fields |-> <<4>>],
       [code |-> 25, name |-> "MaximumWeight", fields |-> <<4>>],
       [code |-> 32, name |-> "SpUstr", fields |-> <<1>>],
       [code |-> 33, name |-> "SpUagi", fields |-> <<1>>],
       [code |-> 34, name |-> "SpUvit", fields |-> <<1>>],
       [code |-> 35, name |-> "SpUint", fields |-> <<1>>],
       [code |-> 36, name |-> "SpUdex", fields |-> <<1>>],
       [code |-> 37, name |-> "SpUluk", fields |-> <<1>>],
       [code |-> 41, name |-> "Attack1", fields |-> <<4>>],
       [code |-> 42, name |-> "Attack2", fields |-> <<4>>],
       [code |-> 43, name |-> "MagicAttack1", fields |-> <<4>>],
       [code |-> 44, name |-> "MagicAttack2", fields |-> <<4>>],
       [code |-> 45, name |-> "Defense1", fields |-> <<4>>],
       [code |-> 46, name |-> "Defense2", fields |-> <<4>>],
       [code |-> 47, name |-> "MagicDefense1", fields |-> <<4>>],
       [code |-> 48, name |-> "MagicDefense2", fields |-> <<4>>],
       [code |-> 49, name |-> "Hit", fields |-> <<4>>],
       [code |-> 50, name |-> "Flee1", fields |-> <<4>>],
       [code |-> 51, name |-> "Flee2", fields |-> <<4>>],
       [code |-> 52, name |-> "Critical", fields |-> <<4>>],
       [code |-> 53, name |-> "AttackSpeed", fields |-> <<4>>],
       [code |-> 55, name |-> "JobLevel", fields |-> <<4>>],
       [code |-> 99, name |-> "CartInfo", fields |-> <<2, 4, 4>>],
       [code |-> 219, name |-> "Power", fields |-> <<4, 4>>],
       [code |-> 220, name |-> "Stamina", fields |-> <<4, 4>>],
       [code |-> 221, name |-> "Wisdom", fields |-> <<4, 4>>],
       [code |-> 222, name |-> "Spell", fields |-> <<4, 4>>],
       [code |-> 223, name |-> "Concentration", fields |-> <<4, 4>>],
       [code |-> 224, name |-> "Creativity", fields |-> <<4, 4>>],
       [code |-> 225, name |-> "PhysicalAttack", fields |-> <<4>>],
       [code |-> 226, name |-> "SpellMagicAttack", fields |-> <<4>>],
       [code |-> 227, name |-> "Resistance", fields |-> <<4>>],
       [code |-> 228, name |-> "MagicResistance", fields |-> <<4>>],
       [code |-> 229, name |-> "HealingPlus", fields |-> <<4>>],
       [code |-> 230, name |-> "CriticalDamageRate", fields |-> <<4>>],
       [code |-> 231, name |-> "TraitPoint", fields |-> <<4>>],
       [code |-> 232, name |-> "ActivityPoints", fields |-> <<4>>],
       [code |-> 233, name |-> "MaximumActivityPoints", fields |-> <<4>>],
       [code |-> 247, name |-> "SpUpow", fields |-> <<1>>],
       [code |-> 248, name |-> "SpUsta", fields |-> <<1>>],
       [code |-> 249, name |-> "SpUwis", fields |-> <<1>>],
       [code |-> 250, name |-> "SpUspl", fields |-> <<1>>],
       [code |-> 251, name |-> "SpUcon", fields |-> <<1>>],
       [code |-> 252, name |-> "SpUcrt", fields |-> <<1>>] >>

StatusCodes == {StatusTypes[i].code : i \in 1..Len(StatusTypes)}

\* mutant: a code without an arm falls back on the first arm
StatusTypeArmDefaulting(code) ==
    IF code \in StatusCodes
    THEN <<StatusTypes[CHOOSE i \in 1..Len(StatusTypes) : StatusTypes[i].code = code]>>
    ELSE <<StatusTypes[1]>>

\* the arm the code selects, none for `invalid => panic!(..)`
StatusTypeArm(code) ==
    IF code \in StatusCodes
    THEN <<StatusTypes[CHOOSE i \in 1..Len(StatusTypes) : StatusTypes[i].code = code]>>
    ELSE <<>>

\* mutant: a single value takes what the length hint leaves behind the code
PayloadShapeFromHint(arm, length_hint) ==
    IF Len(arm.fields) = 1 THEN <<length_hint - 2>> ELSE arm.fields

\* the values read for an arm; the length hint has no part in it
PayloadShape(arm, length_hint) == arm.fields

\* T::from_bytes(&mut byte_stream, None) for each width in turn
RECURSIVE ReadFields(_, _)
ReadFields(stream, widths) ==
    IF widths = <<>> THEN [ok |-> TRUE, values |-> <<>>, stream |-> stream]
    ELSE LET slice == Slice(stream, Head(widths))
             rest == ReadFields(slice.stream, Tail(widths))
         IN  IF ~slice.ok \/ ~rest.ok THEN [ok |-> FALSE, values |-> <<>>, stream |-> stream]
             ELSE [ok |-> TRUE, values |-> <<FromLittleEndian(slice.value)>> \o rest.values,
                   stream |-> rest.stream]

\* mutant: the enclosing cursor stops behind the values that were read
EnclosingCursorBehindValues(sliced, inner) ==
    [sliced EXCEPT !.offset = @ - Remaining(inner)]

\* byte_stream.slice(length_hint.unwrap()) moved the enclosing cursor; the
\* values are read from a ByteStream of their own, which is dropped
EnclosingCursor(sliced, inner) == sliced

\* StatusType::from_bytes(byte_stream, length_hint): length_hint is an Option
StatusTypeFromBytes(stream, length_hint) ==
    LET data == Slice(stream, length_hint[1])
        inner == ByteStream(data.value)
        code == Slice(inner, 2)
        arm == StatusTypeArm(FromLittleEndian(code.value))
        shape == PayloadShape(arm[1], length_hint[1])
        fields == ReadFields(code.stream, shape)
    IN
    IF length_hint = <<>> \/ ~data.ok \/ ~code.ok \/ arm = <<>> \/ ~fields.ok
    THEN [status |-> "panic", value |-> <<>>, stream |-> stream]
    ELSE [status |-> "ok",
          value |-> <<[name |-> arm[1].name, fields |-> fields.values, widths |-> shape]>>,
          stream |-> EnclosingCursor(data.stream, fields.stream)]

\* codes without an arm, the length hints of the four UpdateStatusPackets and
\* no hint at all, and the first four bytes of the payload as a u32 (values
\* the model checker's integers hold)
UnassignedCodes == {10, 19, 253, 9999}
LengthHints == {<<>>, <<3>>, <<6>>, <<10>>, <<12>>}
SamplePayloads == {0, 1, 258, 2147483647}

\* one occurrence of a status value is decoded under two length hints
status_type_from_bytes ==
    /\ CodecReady
    /\ \E code \in StatusCodes \cup UnassignedCodes, payload \in SamplePayloads,
          length_hint \in LengthHints, other_hint \in LengthHints :
           LET bytes == ToLittleEndian(code, 2) \o ToLittleEndian(payload, 4)
                           \o <<0, 0, 0, 0, 5, 6, 7, 8>>
               decoded == StatusTypeFromBytes(ByteStream(bytes), length_hint)
               other == StatusTypeFromBytes(ByteStream(bytes), other_hint)
           IN
           CodecEnd("StatusType", decoded.status,
                    [code |-> code, payload |-> payload, length_hint |-> length_hint,
                     other_hint |-> other_hint, decoded |-> decoded.value,
                     other |-> other.value],
                    decoded.stream)

-----------------------------------------------------------------------------
(* Enumerations on the wire *)

\* the enumerations decoded and encoded below
Enumerations ==
    << [name |-> "LoginFailedReason", variants |-> LoginFailedReason],
       [name |-> "LoginFailedReason2", variants |-> LoginFailedReason2],
       [name |-> "CharacterSelectionFailedReason", variants |-> CharacterSelectionFailedReason],
       [name |-> "CharacterCreationFailedReason", variants |-> CharacterCreationFailedReason] >>

\* the codes a frame can carry for an enumeration
MaxWireCode == 255

\* a code is decoded and the variant, when there is one, encoded again
enum_round_trip ==
    /\ CodecReady
    /\ \E i \in 1..Len(Enumerations), code \in 0..MaxWireCode :
           LET enum == Enumerations[i]
               decoded == EnumDecode(enum.variants, code)
           IN
           CodecEnd(enum.name, IF decoded = Invalid THEN "panic" ELSE "ok",
                    [code |-> code, decoded |-> decoded,
                     encoded |-> IF decoded = Invalid THEN <<>>
                                 ELSE <<EnumEncode(enum.variants, decoded)>>],
                    ByteStream(<<code>>))

-----------------------------------------------------------------------------
(* The header of a frame against the catalog *)

\* the packet types of `names`, in order, whose header the frame carries
Matching(names, header) ==
    LET Matches(name) == PacketHeader(name) = header
    IN  SelectSeq(names, Matches)

CatalogNames == [i \in 1..Len(Catalog) |-> Catalog[i].name]

\* headers no packet type declares
UndeclaredHeaders == {0, 65535}

\* the header of a frame is compared with every packet type, as the chain of
\* network_events does from its first to its last branch
header_match ==
    /\ CodecReady
    /\ \E header \in {Catalog[i].header : i \in 1..Len(Catalog)} \cup UndeclaredHeaders :
           CodecEnd("header", "ok",
                    [header |-> header, declared |-> Matching(CatalogNames, header),
                     tried |-> Matching(TrialChain, header)],
                    ByteStream(ToLittleEndian(header, 2)))

-----------------------------------------------------------------------------
(* Map resources: an object record (src/src/loaders/map/resource.rs) *)

\* byte_stream.get_version().equals_or_above(major, minor)
EqualsOrAbove(version, major, minor) ==
    \/ version.major > major
    \/ version.major = major /\ version.minor >= minor

\* the reads both arms share, from the model name on
ObjectLayout ==
    << [field |-> "model_name", width |-> 80], [field |-> "_node_name", width |-> 80],
       [field |-> "position", width |-> 12], [field |-> "rotation", width |-> 12],
       [field |-> "scale", width |-> 12] >>

\* the reads of version 1.6 and above in front of them
ObjectLayoutNamed ==
    << [field |-> "name", width |-> 40], [field |-> "_animation_type", width |-> 4],
       [field |-> "_animation_speed", width |-> 4], [field |-> "_block_type", width |-> 4] >>

\* mutant: the name and animation fields are read whatever the version is
ObjectReadsAlwaysNamed(version) == ObjectLayoutNamed \o ObjectLayout

\* the reads of ResourceType::Object for a version
ObjectReads(version) ==
    IF EqualsOrAbove(version, 1, 6) THEN ObjectLayoutNamed \o ObjectLayout ELSE ObjectLayout

\* the bytes each read of a layout takes from the stream
RECURSIVE ReadLayout(_, _)
ReadLayout(stream, layout) ==
    IF layout = <<>> THEN [ok |-> TRUE, values |-> <<>>, stream |-> stream]
    ELSE LET slice == Slice(stream, Head(layout).width)
             rest == ReadLayout(slice.stream, Tail(layout))
         IN  IF ~slice.ok \/ ~rest.ok THEN [ok |-> FALSE, values |-> <<>>, stream |-> stream]
             ELSE [ok |-> TRUE,
                   values |-> <<[field |-> Head(layout).field, bytes |-> slice.value]>>
                                 \o rest.values,
                   stream |-> rest.stream]

ValueOf(values, field) ==
    values[CHOOSE i \in 1..Len(values) : values[i].field = field].bytes

\* The Object arm of MapResources::from_bytes for the record at `index`: the
\* ObjectData it pushes.  Floats stay the bytes they were read from; `lifted`
\* is the number of 0.0005 steps added to the position.
ObjectFromBytes(stream, version, index) ==
    LET read == ReadLayout(stream, ObjectReads(version))
        named == EqualsOrAbove(version, 1, 6)
    IN
    IF ~read.ok THEN [status |-> "panic", value |-> <<>>, stream |-> stream]
    ELSE [status |-> "ok",
          value |-> <<[name |-> IF named THEN <<TrimAtZero(ValueOf(read.values, "name"))>>
                                ELSE <<>>,
                       model_name |-> TrimAtZero(ValueOf(read.values, "model_name")),
                       position |-> ValueOf(read.values, "position"),
                       lifted |-> IF named THEN index ELSE 0,
                       rotation |-> ValueOf(read.values, "rotation"),
                       scale |-> ValueOf(read.values, "scale"),
                       reads |-> [i \in 1..Len(read.values) |-> read.values[i].field]]>>,
          stream |-> read.stream]

\* version tags of map files, records per file, and the bytes of a file
Versions == {[major |-> 1, minor |-> 0], [major |-> 1, minor |-> 5], [major |-> 1, minor |-> 6],
             [major |-> 1, minor |-> 9], [major |-> 2, minor |-> 0], [major |-> 2, minor |-> 1]}
MaxResources == 2
FileLength == 250
FileBytes(seed) == [i \in 1..FileLength |-> (i * seed) % 11]

map_resources_object ==
    /\ CodecReady
    /\ \E version \in Versions, index \in 0..(MaxResources - 1), seed \in {3, 5, 12} :
           LET decoded == ObjectFromBytes(ByteStream(FileBytes(seed)), version, index)
           IN
           CodecEnd("MapResources", decoded.status,
                    [version |-> version, index |-> index, object |-> decoded.value],
                    decoded.stream)

\* The records with a hand-written FixedByteSize: the fields of each in the
\* order of declaration, with the bytes its type takes on the wire (an
\* enumeration without numeric_type is one byte, a string its length hint).
CharacterInformationFields ==
    << <<"character_id", 4>>, <<"experience", 8>>, <<"money", 4>>, <<"job_experience", 8>>,
       <<"jop_level", 4>>, <<"body_state", 4>>, <<"health_state", 4>>, <<"effect_state", 4>>,
       <<"virtue", 4>>, <<"honor", 4>>, <<"jobpoint", 2>>, <<"health_points", 8>>,
       <<"maximum_health_points", 8>>, <<"spell_points", 8>>, <<"maximum_spell_points", 8>>,
       <<"movement_speed", 2>>, <<"job", 2>>, <<"head", 2>>, <<"body", 2>>, <<"weapon", 2>>,
       <<"level", 2>>, <<"sp_point", 2>>, <<"accessory", 2>>, <<"shield", 2>>,
       <<"accessory2", 2>>, <<"accessory3", 2>>, <<"head_palette", 2>>, <<"body_palette", 2>>,
       <<"name", 24>>, <<"strength", 1>>, <<"agility", 1>>, <<"vit", 1>>, <<"intelligence", 1>>,
       <<"dexterity", 1>>, <<"luck", 1>>, <<"character_number", 1>>, <<"hair_color", 1>>,
       <<"b_is_changed_char", 2>>, <<"map_name", 16>>, <<"deletion_reverse_date", 4>>,
       <<"robe_palette", 4>>, <<"character_slot_change_count", 4>>,
       <<"character_name_change_count", 4>>, <<"sex", 1>> >>

\* option_data is [ItemOptions; 5], an ItemOptions is u16, u16, u8
EquippableItemInformationFields ==
    << <<"index", 2>>, <<"item_id", 4>>, <<"item_type", 1>>, <<"equip_position", 4>>,
       <<"equipped_position", 4>>, <<"slot", 16>>, <<"hire_expiration_date", 4>>,
       <<"bind_on_equip_type", 2>>, <<"w_item_sprite_number", 2>>, <<"option_count", 1>>,
       <<"option_data", 5 * (2 + 2 + 1)>>, <<"refinement_level", 1>>,
       <<"enchantment_level", 1>>, <<"fags", 1>> >>

SkillInformationFields ==
    << <<"skill_id", 2>>, <<"skill_type", 4>>, <<"skill_level", 2>>,
       <<"spell_point_cost", 2>>, <<"attack_range", 2>>, <<"skill_name", 24>>,
       <<"upgraded", 1>> >>

FriendFields == << <<"account_id", 4>>, <<"character_id", 4>>, <<"name", 24>> >>

\* #[numeric_type(u32)]
EquipPositionFields == << <<"numeric_value", 4>> >>

RecordTypes ==
    {"CharacterInformation", "EquippableItemInformation", "SkillInformation", "Friend",
     "EquipPosition"}

RecordFields(type) ==
    CASE type = "CharacterInformation" -> CharacterInformationFields
      [] type = "EquippableItemInformation" -> EquippableItemInformationFields
      [] type = "SkillInformation" -> SkillInformationFields
      [] type = "Friend" -> FriendFields
      [] type = "EquipPosition" -> EquipPositionFields

\* mutant: every record is given the size of a Friend
SizeInBytesOfFriend(type) == 32

\* the hand-written size_in_bytes of each
SizeInBytes(type) ==
    CASE type = "CharacterInformation" -> 175
      [] type = "EquippableItemInformation" -> 68
      [] type = "SkillInformation" -> 37
      [] type = "Friend" -> 32
      [] type = "EquipPosition" -> 4

\* from_bytes of a record: its fields are read one after the other
RecordFromBytes(stream, type) ==
    ReadLayout(stream, [i \in 1..Len(RecordFields(type)) |->
                           [field |-> RecordFields(type)[i][1],
                            width |-> RecordFields(type)[i][2]]])

\* #[repeating_remaining]: as many records as size_in_bytes says the rest of
\* the frame holds are read from the cursor
RECURSIVE RepeatRecords(_, _, _)
RepeatRecords(stream, type, count) ==
    IF count = 0 THEN [ok |-> TRUE, count |-> 0, stream |-> stream]
    ELSE LET first == RecordFromBytes(stream, type) IN
         IF ~first.ok THEN [ok |-> FALSE, count |-> 0, stream |-> stream]
         ELSE LET rest == RepeatRecords(first.stream, type, count - 1)
              IN  [rest EXCEPT !.count = @ + 1]

RepeatingRemaining(stream, type, remaining) ==
    RepeatRecords(stream, type, remaining \div SizeInBytes(type))

\* most records in the rest of a frame
MaxRecords == 2

\* bytes that follow the frame in the buffer
TrailingBytes == <<7, 7, 7>>

\* the rest of a frame of `sent` records is collected from a buffer that goes
\* on behind the frame
repeating_remaining ==
    /\ CodecReady
    /\ \E type \in RecordTypes, sent \in 0..MaxRecords :
           LET one == RecordFromBytes(ByteStream(Zeros(Sum([i \in 1..Len(RecordFields(type)) |->
                                                              RecordFields(type)[i][2]]))),
                                      type)
               remaining == sent * (one.stream.offset - 1)
               stream == ByteStream(Zeros(remaining) \o TrailingBytes)
               collected == RepeatingRemaining(stream, type, remaining)
           IN
           CodecEnd("repeating_remaining", IF collected.ok THEN "ok" ELSE "panic",
                    [type |-> type, sent |-> sent, remaining |-> remaining,
                     record_bytes |-> one.stream.offset - 1, size |-> SizeInBytes(type),
                     count |-> collected.count],
                    collected.stream)

-----------------------------------------------------------------------------
(* CodecSpec *)

\* no decoder has run
CodecInit == Init

CodecNext ==
    \/ try_from_bytes_length_prefixed
    \/ world_position_round_trip
    \/ item_index_round_trip
    \/ status_type_from_bytes
    \/ enum_round_trip
    \/ header_match
    \/ map_resources_object
    \/ repeating_remaining
    \/ world_position2_from_bytes

CodecSpec == CodecInit /\ [][CodecNext]_vars

-----------------------------------------------------------------------------
(* log_in, call by call of its blocking operations (LogInSpec)              *)
(*                                                                          *)
(* log_in is followed from one blocking call to the next: result has the   *)
(* status "running" while it is inside the call that msg names, with its   *)
(* local packets in arg, and iterations counts the seconds it has waited   *)
(* in that call.  The servers answer when they choose to, or never.        *)

\* self.login_stream.read(..) in get_data_from_login_server
LoginRead == "login_stream.read"
\* TcpStream::connect_timeout(&socket_address, ..)
CharacterConnect == "TcpStream::connect_timeout"
\* character_stream.read(..) in get_data_from_character_server: the account
\* id, the answer to the login, the character list
AccountIdRead == "character_stream.read account id"
CharacterLoginRead == "character_stream.read login"
CharacterListRead == "character_stream.read character list"
CharacterReads == {AccountIdRead, CharacterLoginRead, CharacterListRead}

\* login_stream.set_read_timeout(Duration::from_secs(1).into()), in seconds
LoginReadTimeout == 1

\* the clock of a wait without a timeout is kept modulo MaxWait + 1
MaxWait == 3

\* the read timeout of the character connection: none is ever set
CharacterReadTimeout == <<>>

LogInRunning(call) ==
    /\ ~aborted
    /\ result.op = "log_in"
    /\ result.status = "running"
    /\ result.msg = call

\* log_in goes on to its next blocking call
LogInBlocks(call, local, rd, wr, ld, cs) ==
    /\ result' = WithArgument(Result("log_in", "running", call), local)
    /\ received' = rd
    /\ written' = wr
    /\ login_data' = ld
    /\ character_stream' = cs
    /\ iterations' = 0
    /\ UNCHANGED <<friend_list, characters, slot_count, map_stream, move_request, player_name, timers,
                   aborted, byte_stream, updates>>

\* a second passes inside a blocking call
LogInWaits(ticks) ==
    /\ iterations' = ticks
    /\ UNCHANGED <<session, timers, aborted, result, received, written, byte_stream, updates>>

\* log_in is called and sends the login packet
log_in_call ==
    /\ Idle
    /\ iterations = 0
    /\ \E w1 \in BOOLEAN :
           IF ~w1 THEN
               LogInEnd(Panic("log_in", "failed to send packet to login server"), <<>>, <<>>,
                        login_data, character_stream, characters, slot_count)
           ELSE
               LogInBlocks(LoginRead, <<>>, <<>>, <<Written("login", LoginServerLoginPacket)>>,
                           login_data, character_stream)

\* the read on the login connection returns: data, or an error of the socket
login_server_responds ==
    /\ LogInRunning(LoginRead)
    /\ \E r1 \in Reads(LoginServerFrames) :
           LET rd1 == Append(received, r1)
               stream == ByteStream(r1.data)
               unchanged(res) ==
                   LogInEnd(res, rd1, written, login_data, character_stream, characters,
                            slot_count)
           IN
           IF ~r1.ok THEN
               unchanged(Panic("log_in", "failed to get response from login server"))
           ELSE IF MatchSignature(stream, LoginFailedPacket_header) THEN
               IF EnumDecode(LoginFailedReason, Packet(stream).reason) = Invalid THEN
                   unchanged(Panic("log_in", "invalid enum"))
               ELSE
                   unchanged(Err("log_in", LoginFailedMessage(
                       EnumDecode(LoginFailedReason, Packet(stream).reason))))
           ELSE IF MatchSignature(stream, LoginFailedPacket2_header) THEN
               IF EnumDecode(LoginFailedReason2, Packet(stream).reason) = Invalid THEN
                   unchanged(Panic("log_in", "invalid enum"))
               ELSE
                   unchanged(Err("log_in", LoginFailed2Message(
                       EnumDecode(LoginFailedReason2, Packet(stream).reason))))
           ELSE IF ~MatchSignature(stream, LoginServerLoginSuccessPacket_header) THEN
               unchanged(Panic("log_in", "unwrap"))
           ELSE IF Malformed(stream) \/ EnumDecode(Sex, Packet(stream).sex) = Invalid THEN
               unchanged(Panic("log_in", "invalid packet"))
           ELSE IF Packet(stream).character_server_information = <<>> THEN
               LogInEnd(Err("log_in", "no character server available"), rd1, written,
                        LogInLoginData(Packet(stream)), character_stream, characters, slot_count)
           ELSE
               LogInBlocks(CharacterConnect, Packet(stream), rd1, written,
                           LogInLoginData(Packet(stream)), character_stream)

\* the login server stays silent: after the read timeout the read fails and
\* the expect panics
login_read_wait ==
    /\ LogInRunning(LoginRead)
    /\ IF iterations < LoginReadTimeout THEN LogInWaits(iterations + 1)
       ELSE LogInEnd(Panic("log_in", "failed to get response from login server"),
                     received, written, login_data, character_stream, characters, slot_count)

\* connect_timeout returns within its second, connected or not; the login
\* packet is written to the new connection
character_connect ==
    /\ LogInRunning(CharacterConnect)
    /\ \E c1 \in BOOLEAN, w2 \in BOOLEAN :
           LET packet == result.arg[1] IN
           IF ~c1 THEN
               LogInEnd(Err("log_in", "Failed to connect to character server. Please try again"),
                        received, written, login_data, character_stream, characters, slot_count)
           ELSE IF ~w2 THEN
               LogInEnd(Err("log_in", "failed to send packet to character server"),
                        received, written, login_data, Some, characters, slot_count)
           ELSE
               LogInBlocks(AccountIdRead, packet, received,
                   Append(written, Written("character",
                       CharacterServerLoginPacket(packet.account_id, packet.login_id1,
                           packet.login_id2, EnumDecode(Sex, packet.sex)))),
                   login_data, Some)

\* a read on the character connection returns
character_server_responds ==
    \/ /\ LogInRunning(AccountIdRead)
       /\ \E r2 \in Reads(AccountIdFrames) :
              LET rd2 == Append(received, r2)
                  end(res) == LogInEnd(res, rd2, written, login_data, Some, characters,
                                       slot_count)
              IN
              IF ~r2.ok THEN
                  end(Panic("log_in", "failed to get response from character server"))
              ELSE IF \/ r2.data = <<>>
                      \/ r2.data[1].header # RawData
                      \/ r2.data[1].truncated THEN
                  end(Panic("log_in", "byte stream is shorter than expected"))
              ELSE IF ~LogInAccountIdAccepted(r2.data[1].account_id, result.arg[1]) THEN
                  end(Panic("log_in", "assertion failed"))
              ELSE
                  LogInBlocks(CharacterLoginRead, result.arg[1], rd2, written, login_data, Some)
    \/ /\ LogInRunning(CharacterLoginRead)
       /\ \E r3 \in Reads(CharacterServerLoginFrames), w3 \in BOOLEAN :
              LET rd3 == Append(received, r3)
                  stream == ByteStream(r3.data)
                  end(res) == LogInEnd(res, rd3, written, login_data, Some, characters,
                                       slot_count)
              IN
              IF ~r3.ok THEN
                  end(Panic("log_in", "failed to get response from character server"))
              ELSE IF MatchSignature(stream, LoginFailedPacket_header) THEN
                  IF EnumDecode(LoginFailedReason, Packet(stream).reason) = Invalid THEN
                      end(Panic("log_in", "invalid enum"))
                  ELSE
                      end(Err("log_in", LoginFailedMessage(
                          EnumDecode(LoginFailedReason, Packet(stream).reason))))
              ELSE IF ~MatchSignature(stream, CharacterServerLoginSuccessPacket_header) THEN
                  end(Panic("log_in", "unwrap"))
              ELSE IF ~w3 THEN
                  end(Panic("log_in", "failed to send packet to character server"))
              ELSE
                  LogInBlocks(CharacterListRead, Packet(stream), rd3,
                              Append(written, Written("character", RequestCharacterListPacket)),
                              login_data, Some)
    \/ /\ LogInRunning(CharacterListRead)
       /\ \E r4 \in Reads(CharacterListFrames) :
              LET rd4 == Append(received, r4)
                  stream == ByteStream(r4.data)
                  end(res) == LogInEnd(res, rd4, written, login_data, Some, characters,
                                       slot_count)
              IN
              IF ~r4.ok THEN
                  end(Panic("log_in", "failed to get response from character server"))
              ELSE IF \/ ~MatchSignature(stream, RequestCharacterListSuccessPacket_header)
                      \/ Malformed(stream) THEN
                  end(Panic("log_in", "unwrap"))
              ELSE
                  LogInEnd(Ok("log_in"), rd4, written, login_data, Some,
                           LogInCharacters(characters, Packet(stream).character_information),
                           result.arg[1].normal_slot_count)

\* the character server stays silent: the read waits on, and gives up only
\* if the connection has a read timeout
character_read_wait ==
    /\ \E call \in CharacterReads : LogInRunning(call)
    /\ IF CharacterReadTimeout = <<>> THEN LogInWaits((iterations + 1) % (MaxWait + 1))
       ELSE IF iterations < CharacterReadTimeout[1] THEN LogInWaits(iterations + 1)
       ELSE LogInEnd(Panic("log_in", "failed to get response from character server"),
                     received, written, login_data, character_stream, characters, slot_count)

LogInInit == Init

\* what log_in does by itself, the passing of time included
LogInProgress ==
    \/ log_in_call
    \/ login_read_wait
    \/ character_connect
    \/ character_read_wait

LogInNext ==
    \/ log_in_call
    \/ login_server_responds
    \/ login_read_wait
    \/ character_connect
    \/ character_server_responds
    \/ character_read_wait

\* log_in runs on and time passes; no server is obliged to answer
LogInSpec == LogInInit /\ [][LogInNext]_vars /\ WF_vars(LogInProgress)

-----------------------------------------------------------------------------
(* The frame a read returned, for the properties below *)

\* the i-th read of the last operation returned a complete frame of this type
ReceivedFrame(rd, i, header) ==
    /\ i <= Len(rd)
    /\ rd[i].ok
    /\ rd[i].data # <<>>
    /\ rd[i].data[1].header = header
    /\ ~rd[i].data[1].truncated

Frame(rd, i) == rd[i].data[1]

-----------------------------------------------------------------------------
\* C1: after log_in returns Ok, the roster is exactly the character list of
\* the list response (nothing of an earlier roster is left) and LoginData
\* holds the account id, login_id1 and sex of the login success frame.
C1_LogInStoresRosterAndLoginData ==
    (result.op = "log_in" /\ result.status = "ok") =>
        /\ ReceivedFrame(received, 1, LoginServerLoginSuccessPacket_header)
        /\ ReceivedFrame(received, 4, RequestCharacterListSuccessPacket_header)
        /\ characters = Frame(received, 4).character_information
        /\ Len(login_data) = 1
        /\ login_data[1].account_id = Frame(received, 1).account_id
        /\ login_data[1].login_id1 = Frame(received, 1).login_id1
        /\ EnumEncode(Sex, login_data[1].sex) = Frame(received, 1).sex

\* a login of account 2 (sex Male) whose list response carries one character
C1_Witness ==
    /\ result.op = "log_in"
    /\ result.status = "ok"
    /\ Len(characters) = 1
    /\ login_data[1].sex = "Male"
    /\ Frame(received, 1).sex = 1

-----------------------------------------------------------------------------
\* C2: in every reachable state an open map connection implies an open
\* character connection, and an open character connection implies that
\* LoginData is present.
C2_HandshakesInSequence ==
    /\ map_stream.open => character_stream = Some
    /\ character_stream = Some => login_data # <<>>

\* all three stages are established
C2_Witness ==
    /\ map_stream.open
    /\ character_stream = Some
    /\ login_data # <<>>
    /\ result.op = "select_character"

-----------------------------------------------------------------------------
\* C3: LoginData is empty at startup, changes only in a log_in that received
\* the login success frame (to the data of that frame), is never cleared once
\* present, and a log_in answered by a login-failed frame leaves it unchanged.
C3_LoginDataLifecycle ==
    /\ login_data = <<>>
    /\ [][ /\ login_data' # login_data =>
                /\ result'.op = "log_in"
                /\ ReceivedFrame(received', 1, LoginServerLoginSuccessPacket_header)
                /\ login_data' # <<>>
           /\ login_data # <<>> => login_data' # <<>>
           /\ ( /\ result'.op = "log_in"
                /\ \/ ReceivedFrame(received', 1, LoginFailedPacket_header)
                   \/ ReceivedFrame(received', 1, LoginFailedPacket2_header) )
              => login_data' = login_data
         ]_vars

\* a log_in refused with "incorrect password" after an earlier successful one
C3_Witness ==
    /\ result.op = "log_in"
    /\ result.msg = "incorrect password"
    /\ login_data # <<>>

-----------------------------------------------------------------------------
\* removing one trailing ".gat"
TrimExtension(map_name) ==
    IF /\ Len(map_name) >= Len(GatExtension)
       /\ SubSeq(map_name, Len(map_name) - Len(GatExtension) + 1, Len(map_name)) = GatExtension
    THEN SubSeq(map_name, 1, Len(map_name) - Len(GatExtension))
    ELSE map_name

\* the map-login request select_character is to write
ExpectedMapLogin ==
    [header |-> MapServerLoginPacket_header,
     account_id |-> login_data[1].account_id,
     character_id |-> Frame(received, 1).character_id,
     login_id1 |-> login_data[1].login_id1,
     client_tick |-> ClientTick,
     sex |-> login_data[1].sex]

SelectionSucceeded ==
    /\ result.op = "select_character"
    /\ ReceivedFrame(received, 1, CharacterSelectionSuccessPacket_header)

-----------------------------------------------------------------------------
\* C5: when the character server answers select_character with a
\* selection-failed, login-failed or map-unavailable frame, or the map server
\* cannot be connected, select_character returns an error, and a
\* select_character that returns an error leaves the map connection, the
\* roster and LoginData as they were.
C5_SelectCharacterFailure ==
    [][ result'.op = "select_character" =>
          /\ ( \/ /\ ReceivedFrame(received', 1, CharacterSelectionFailedPacket_header)
                  /\ Frame(received', 1).reason \in {0}
               \/ /\ ReceivedFrame(received', 1, LoginFailedPacket_header)
                  /\ Frame(received', 1).reason \in {1, 2, 8}
               \/ ReceivedFrame(received', 1, MapServerUnavailablePacket_header) )
             => result'.status = "err"
          /\ result'.status = "err" =>
                /\ map_stream' = map_stream
                /\ characters' = characters
                /\ login_data' = login_data
      ]_vars

\* the map server refuses the connection while an earlier map connection is open
C5_Witness ==
    /\ result.op = "select_character"
    /\ result.status = "err"
    /\ result.msg = "Failed to connect to map server. Please try again"
    /\ map_stream.open
    /\ characters # <<>>

-----------------------------------------------------------------------------
HasEvent(event) == \E i \in 1..Len(result.events) : result.events[i] = event

\* network_events processed the server's confirmation of a restart request
\* that log_out wrote on this map connection
DisconnectConfirmed ==
    /\ result.op = "network_events"
    /\ result.status = "ok"
    /\ map_stream.restart_sent
    /\ HasEvent(Disconnect)

\* C6 as stated: after log_out has sent the restart request and
\* network_events has processed the confirming response, the map connection
\* is closed.
C6_AsStated == DisconnectConfirmed => ~map_stream.open

\* C6, amended: network_events answers the confirming response with a
\* Disconnect event and leaves the map connection as it is; the map
\* connection is closed by disconnect_from_map_server, which the caller runs
\* on that event and which leaves the character connection and LoginData in
\* place.
C6_DisconnectClosesMapStream ==
    [][ /\ result'.op = "network_events" =>
              /\ map_stream' = map_stream
              /\ ( \/ ReceivedFrame(received', 1, DisconnectResponsePacket_header)
                      /\ Frame(received', 1).result = 0
                   \/ ReceivedFrame(received', 1, RestartResponsePacket_header)
                      /\ Frame(received', 1).result = 1 )
                 => \E i \in 1..Len(result'.events) : result'.events[i] = Disconnect
        /\ result'.op = "disconnect_from_map_server" =>
              /\ ~map_stream'.open
              /\ character_stream' = character_stream
              /\ login_data' = login_data
      ]_vars

\* the confirmation has been processed and the map connection is still open
C6_Witness ==
    /\ DisconnectConfirmed
    /\ map_stream.open
    /\ character_stream = Some
    /\ login_data # <<>>

-----------------------------------------------------------------------------
\* C7: create_character changes the roster only when the server answers with
\* the creation-success frame, and then appends exactly the returned
\* character; a creation-failed frame gives an error and the same roster.
C7_CreateCharacterRoster ==
    [][ result'.op = "create_character" =>
          /\ characters' # characters =>
                ReceivedFrame(received', 1, CreateCharacterSuccessPacket_header)
          /\ result'.status = "ok" =>
                /\ ReceivedFrame(received', 1, CreateCharacterSuccessPacket_header)
                /\ characters' = characters \o <<Frame(received', 1).character_information>>
          /\ ( /\ ReceivedFrame(received', 1, CharacterCreationFailedPacket_header)
               /\ Frame(received', 1).reason \in {0, 1, 3, 255} )
             => (result'.status = "err" /\ characters' = characters)
      ]_vars

\* a character created into a roster that already held one
C7_Witness ==
    /\ result.op = "create_character"
    /\ result.status = "ok"
    /\ Len(characters) = 2
    /\ characters[1] # characters[2]

-----------------------------------------------------------------------------
\* C8: delete_character(id) on a deletion-success response leaves exactly
\* the previous entries whose character id differs from id, in their order;
\* on a deletion-failed response it returns an error and the roster is
\* unchanged.
C8_DeleteCharacterRoster ==
    [][ result'.op = "delete_character" =>
          /\ ReceivedFrame(received', 1, CharacterDeletionSuccessPacket_header) =>
                /\ result'.status = "ok"
                /\ characters' = SelectSeq(characters,
                       LAMBDA character : character.character_id # result'.arg[1])
          /\ ( /\ ReceivedFrame(received', 1, CharacterDeletionFailedPacket_header)
               /\ Frame(received', 1).reason \in {0, 1, 2} )
             => (result'.status = "err" /\ characters' = characters)
      ]_vars

\* character 1 was deleted and character 2 is left
C8_Witness ==
    /\ result.op = "delete_character"
    /\ result.status = "ok"
    /\ result.arg = <<1>>
    /\ Len(characters) = 1
    /\ characters[1].character_id = 2

-----------------------------------------------------------------------------
\* C9: in log_in and select_character a failed read (read error or timeout)
\* makes the operation return an error result instead of aborting.
C9_TransportErrorsAreReturned ==
    ( /\ result.op \in {"log_in", "select_character"}
      /\ \E i \in 1..Len(received) : ~received[i].ok )
    => result.status = "err"

-----------------------------------------------------------------------------
\* C10: log_in returns "incorrect password" exactly when the login server
\* answers with the second login-failed frame carrying reason code 1 and
\* "server is full" exactly when it carries reason code 7; every enumerated
\* reason code of both login-failed frames gives an error, never a login.
C10_LoginFailureMessages ==
    result.op = "log_in" =>
        /\ result.msg = "incorrect password" <=>
              ( /\ ReceivedFrame(received, 1, LoginFailedPacket2_header)
                /\ Frame(received, 1).reason = 1 )
        /\ result.msg = "server is full" <=>
              ( /\ ReceivedFrame(received, 1, LoginFailedPacket2_header)
                /\ Frame(received, 1).reason = 7 )
        /\ ( \/ /\ ReceivedFrame(received, 1, LoginFailedPacket_header)
                /\ Frame(received, 1).reason \in {1, 2, 8}
             \/ /\ ReceivedFrame(received, 1, LoginFailedPacket2_header)
                /\ Frame(received, 1).reason \in 0..8 )
           => (result.status = "err" /\ result.msg # "")

\* the login server answers with reason code 7
C10_Witness ==
    /\ result.op = "log_in"
    /\ result.status = "err"
    /\ result.msg = "server is full"
    /\ Frame(received, 1).reason = 7

-----------------------------------------------------------------------------
(* The polling loop of network_events (PollSpec) *)

\* a step of the polling loop
LoopStep == result.op = "network_events" /\ result.status = "running"

\* the socket reads the step performed and the frames they delivered, in
\* arrival order
NewReads == SubSeq(received', Len(received) + 1, Len(received'))

RECURSIVE Arrived(_)
Arrived(reads) == IF reads = <<>> THEN <<>> ELSE Head(reads).data \o Arrived(Tail(reads))

\* a complete frame of a dispatched type whose fields decode
WellFormed(frame) ==
    /\ frame.header \in DispatchedHeaders
    /\ ~frame.truncated
    /\ ~HandlePacket(frame).panic

\* the events of a run of well-formed frames, frame after frame
RECURSIVE EventsOf(_)
EventsOf(frames) ==
    IF frames = <<>> THEN <<>>
    ELSE HandlePacket(Head(frames)).events \o EventsOf(Tail(frames))

\* the event of a frame that stands for exactly one event
CorrespondingEvent(frame) ==
    IF frame.header = ServerTickPacket_header THEN UpdateClientTick(frame.client_tick)
    ELSE Disconnect

HasOneEvent(frame) ==
    /\ ~frame.truncated
    /\ \/ frame.header = ServerTickPacket_header
       \/ frame.header = RestartResponsePacket_header /\ frame.result = 1
       \/ frame.header = DisconnectResponsePacket_header /\ frame.result = 0

-----------------------------------------------------------------------------
\* C11: when one socket read holds three concatenated known frames that
\* stand for one event each, the step yields exactly those three events in
\* frame order, behind the events collected before, and the cursor ends at
\* the end of the buffer.
C11_ThreeFramesThreeEvents ==
    [][ ( /\ LoopStep
          /\ Len(NewReads) = 1
          /\ NewReads[1].ok
          /\ Len(NewReads[1].data) = 3
          /\ \A i \in 1..3 : HasOneEvent(NewReads[1].data[i]) )
        => /\ result'.status = "running"
           /\ result'.events =
                  result.events \o [i \in 1..3 |-> CorrespondingEvent(NewReads[1].data[i])]
           /\ byte_stream'.data = NewReads[1].data
           /\ byte_stream'.offset = Len(byte_stream'.data) + 1
      ]_vars

\* a tick, a restart confirmation and a tick in the one read of a call
C11_Witness ==
    /\ result.op = "network_events"
    /\ result.status = "ok"
    /\ received = <<ReadData(<<ServerTickPacket(8), RestartResponsePacket(1), ServerTickPacket(8)>>),
                    WouldBlock>>
    /\ result.events = <<UpdateClientTick(8), Disconnect, UpdateClientTick(8)>>
    /\ byte_stream.offset = 4

-----------------------------------------------------------------------------
\* C12: when a read holds one complete known frame followed by a truncated
\* second known frame, the call does not abort and yields the event of the
\* complete frame, and once the rest of the second frame has arrived in the
\* next read the event of the second frame is produced as well.
C12_PartialDeliveryIsRetried ==
    ( /\ result.op = "network_events"
      /\ received # <<>>
      /\ received[1] = ReadData(<<ServerTickPacket(8), Truncated(RestartResponsePacket_header)>>) )
    => /\ result.status # "panic"
       /\ result.events # <<>>
       /\ result.events[1] = UpdateClientTick(8)
       /\ ( /\ Len(received) >= 2
            /\ received[2] = ReadData(<<[header |-> RawData, truncated |-> FALSE]>>) )
          => \E i \in 2..Len(result.events) :
                result.events[i] \in {Disconnect, ChatMessage("Failed to log out.")}

-----------------------------------------------------------------------------
\* C13: when a read holds well-formed known frames up to a frame whose
\* header no packet type of the chain has, the step does not abort, pushes
\* exactly the events of the frames before that frame, leaves the cursor at
\* it (no later frame of the buffer is decoded) and the polling loop goes on.
C13_UnknownHeaderStopsTheBuffer ==
    [][ ( /\ LoopStep
          /\ Len(NewReads) = 1
          /\ NewReads[1].ok )
        => \A i \in 1..Len(NewReads[1].data) :
              ( /\ NewReads[1].data[i].header \notin DispatchedHeaders
                /\ \A j \in 1..(i - 1) : WellFormed(NewReads[1].data[j]) )
              => /\ result'.status = "running"
                 /\ ~aborted'
                 /\ result'.events =
                        result.events \o EventsOf(SubSeq(NewReads[1].data, 1, i - 1))
                 /\ byte_stream'.data = NewReads[1].data
                 /\ byte_stream'.offset = i
      ]_vars

\* the frame after the unknown one gave no event, the next read did
C13_Witness ==
    /\ result.op = "network_events"
    /\ result.status = "ok"
    /\ Len(received) = 3
    /\ received[1] = ReadData(<<ServerTickPacket(8), UnknownPacket, RestartResponsePacket(1)>>)
    /\ received[2] = ReadData(<<DisconnectResponsePacket(1)>>)
    /\ result.events = <<UpdateClientTick(8),
                         ChatMessage("Please wait 10 seconds before trying to log out.")>>

-----------------------------------------------------------------------------
\* C14: every step of the polling loop that does not abort appends to the
\* events collected so far the events of a leading run of the frames that
\* arrived in this step, frame after frame: the events of one call are in the
\* order in which their frames arrived.
C14_EventsInArrivalOrder ==
    [][ (LoopStep /\ result'.status # "panic")
        => \E k \in 0..Len(Arrived(NewReads)) :
              /\ \A j \in 1..k : WellFormed(Arrived(NewReads)[j])
              /\ result'.events = result.events \o EventsOf(SubSeq(Arrived(NewReads), 1, k))
      ]_vars

\* two reads, and the events of the first read come first
C14_Witness ==
    /\ result.op = "network_events"
    /\ Len(received) >= 2
    /\ received[1] = ReadData(<<MapServerLoginSuccessPacket(7, <<3, 4>>), ServerTickPacket(8)>>)
    /\ received[2] = ReadData(<<RestartResponsePacket(1)>>)
    /\ result.events = <<UpdateClientTick(7), SetPlayerPosition(<<3, 4>>), UpdateClientTick(8),
                         Disconnect>>

-----------------------------------------------------------------------------
\* C15: a step of the polling loop whose last read would block ends the
\* call: it returns the events collected so far without aborting and leaves
\* the session as it was; without a map connection the call returns no event.
C15_WouldBlockIsNoData ==
    [][ /\ ( /\ LoopStep
             /\ NewReads # <<>>
             /\ NewReads[Len(NewReads)] = WouldBlock )
           => /\ result'.status = "ok"
              /\ ~aborted'
              /\ result'.events = result.events
              /\ UNCHANGED session
        /\ (LoopStep /\ ~map_stream.open)
           => /\ result'.status = "ok"
              /\ result'.events = <<>>
              /\ UNCHANGED session
      ]_vars

-----------------------------------------------------------------------------
\* C16: every call of network_events returns (or aborts) after finitely many
\* iterations of its polling loop.
C16_NetworkEventsReturns ==
    (result.status = "running") ~> (result.status # "running")

-----------------------------------------------------------------------------
\* C17: a read that is one map-login-success frame adds exactly the
\* client-tick update of the frame's tick followed by the set-player-position
\* of the frame's position; a frame that is only informative (emotion,
\* attack range) adds no event and the cursor moves past it, so that a frame
\* behind it in the same read is decoded.
C17_FanOutAndInformativeFrames ==
    [][ ( /\ LoopStep
          /\ Len(NewReads) = 1
          /\ NewReads[1].ok
          /\ NewReads[1].data # <<>> )
        => LET data == NewReads[1].data
               informative == {DisplayEmotionPacket_header, UpdateAttackRangePacket_header}
           IN
           /\ (Len(data) = 1 /\ WellFormed(data[1])
                /\ data[1].header = MapServerLoginSuccessPacket_header)
              => /\ result'.events = result.events \o
                        <<UpdateClientTick(data[1].client_tick),
                          SetPlayerPosition(data[1].position)>>
                 /\ byte_stream'.offset = 2
           /\ (Len(data) = 1 /\ ~data[1].truncated /\ data[1].header \in informative)
              => /\ result'.events = result.events
                 /\ result'.status = "running"
                 /\ byte_stream'.offset = 2
           /\ (Len(data) = 2 /\ ~data[1].truncated /\ data[1].header \in informative
                /\ ~data[2].truncated /\ data[2].header = ServerTickPacket_header)
              => /\ result'.events = result.events \o <<UpdateClientTick(data[2].client_tick)>>
                 /\ byte_stream'.offset = 3
      ]_vars

\* an emotion frame and a tick in one read, then the map-login success
C17_Witness ==
    /\ result.op = "network_events"
    /\ Len(received) >= 2
    /\ received[1] = ReadData(<<DisplayEmotionPacket, ServerTickPacket(8)>>)
    /\ received[2] = ReadData(<<MapServerLoginSuccessPacket(7, <<3, 4>>)>>)
    /\ result.events = <<UpdateClientTick(8), UpdateClientTick(7), SetPlayerPosition(<<3, 4>>)>>
    /\ byte_stream.offset = 2

-----------------------------------------------------------------------------
(* keep_alive (KeepAliveSpec) *)

\* a call of keep_alive and the elapsed time it was given
KeepAliveStep == Idle /\ result'.op = "keep_alive"

\* NetworkTimer with this accumulator and period rolls over after delta_time
RollsOver(accumulator, period, delta_time) == accumulator + delta_time > period

\* the accumulator after the timer was advanced once by delta_time
AdvancedOnce(accumulator, period, delta_time) ==
    IF RollsOver(accumulator, period, delta_time)
    THEN accumulator + delta_time - period
    ELSE accumulator + delta_time

FramesTo(wr, to) == SelectSeq(wr, LAMBDA w : w.to = to)

-----------------------------------------------------------------------------
(* NetworkTimer::update (TimerSpec) *)

\* the calls of the history that returned true
Triggers(log) == Len(SelectSeq(log, LAMBDA u : u.reset))

\* the accumulator of the timer under test
Accumulator == character_keep_alive_timer

\* C19 as stated: every history of update calls on a timer with a period of
\* 10 s whose elapsed times add up to 25 s has exactly two triggers and
\* leaves the accumulator at 5 s.
C19_AsStated ==
    TotalElapsed(updates) = 25 => Triggers(updates) = 2 /\ Accumulator = 5

\* C19: a history of update calls on a timer with a period of 10 s whose
\* elapsed times add up to 25 s leaves the accumulator at 25 s less 10 s for
\* each trigger, with at most two triggers; when no call's elapsed time is
\* longer than the period there are exactly two triggers and the accumulator
\* is left at 5 s.
C19_TwoTriggersForShortSteps ==
    TotalElapsed(updates) = 25 =>
        /\ Triggers(updates) <= 2
        /\ Accumulator = 25 - CharacterKeepAlivePeriod * Triggers(updates)
        /\ (\A i \in 1..Len(updates) : updates[i].elapsed_time <= CharacterKeepAlivePeriod)
           => Triggers(updates) = 2 /\ Accumulator = 5

\* 10 s, 10 s and 5 s: the second and the third call trigger
C19_Witness ==
    /\ updates = <<[elapsed_time |-> 10, reset |-> FALSE], [elapsed_time |-> 10, reset |-> TRUE],
                   [elapsed_time |-> 5, reset |-> TRUE]>>
    /\ Accumulator = 5

\* C20: an update that triggers leaves the accumulator at the previous
\* accumulator plus the elapsed time less one period, which is not zero; an
\* update that does not trigger leaves it at the previous accumulator plus
\* the elapsed time; after every history the accumulator is the total elapsed
\* time less one period for each trigger.
C20_RolloverSubtractsOnePeriod ==
    [][ updates' # updates =>
        LET call == updates'[Len(updates')]
        IN
        /\ call.reset =>
              /\ Accumulator' = Accumulator + call.elapsed_time - CharacterKeepAlivePeriod
              /\ Accumulator' > 0
        /\ ~call.reset => Accumulator' = Accumulator + call.elapsed_time
        /\ call.reset <=> Accumulator + call.elapsed_time > CharacterKeepAlivePeriod
        /\ Accumulator' =
               TotalElapsed(updates') - CharacterKeepAlivePeriod * Triggers(updates')
      ]_vars

\* one call of 25 s: a single trigger, and 15 s stay in the accumulator
C20_Witness ==
    /\ updates = <<[elapsed_time |-> 25, reset |-> TRUE]>>
    /\ Accumulator = 15

-----------------------------------------------------------------------------
(* Properties of the wire codecs (CodecSpec) *)

\* the bytes a decoder took from the buffer
Consumed == byte_stream.offset - 1

\* a length-prefixed frame was decoded whose packet_length is its length
WellFormedFrame ==
    /\ result.op = "try_from_bytes"
    /\ result.arg[1].packet_length = result.arg[1].true_length

\* C21: decoding a well-formed length-prefixed frame succeeds and consumes
\* exactly packet_length bytes, and the k of each packet type's length hint
\* packet_length - k is the header bytes plus the bytes of all fields in
\* front of the string.
C21_FrameConsumesPacketLength ==
    WellFormedFrame =>
        /\ result.status = "ok"
        /\ Consumed = result.arg[1].packet_length
        /\ result.arg[1].packet.correction = PrefixBytes + Sum(result.arg[1].packet.fields)

\* C22: decoding a length-prefixed frame whose packet_length is smaller or
\* larger than the frame's true length fails; it never succeeds with the
\* cursor somewhere else than at the start of the next frame.
C22_WrongPrefixFails ==
    (result.op = "try_from_bytes" /\ result.arg[1].packet_length # result.arg[1].true_length) =>
        result.status # "ok"

\* C23: for all x and y in 0..1023, decoding the encoding of
\* WorldPosition {x, y} gives {x, y} again.
C23_WorldPositionRoundTrip ==
    result.op = "WorldPosition" => result.arg[1].decoded = <<result.arg[1].position>>

\* C24: for every 16-bit wire value v of at least 2, decoding an ItemIndex
\* gives the index v - 2 and encoding that index gives the wire value v.
C24_ItemIndexOffsetByTwo ==
    (result.op = "ItemIndex" /\ result.arg[1].wire >= 2) =>
        /\ result.status = "ok"
        /\ result.arg[1].index = <<result.arg[1].wire - 2>>
        /\ result.arg[1].encoded = ToLittleEndian(result.arg[1].wire, 2)
        /\ Consumed = 2

\* the largest wire value: index 65533
C24_Witness ==
    /\ result.op = "ItemIndex"
    /\ result.status = "ok"
    /\ result.arg[1].wire = 65535
    /\ result.arg[1].index = <<65533>>
    /\ result.arg[1].encoded = <<255, 255>>

\* C25: a StatusType whose code is 11, followed by four little-endian bytes
\* of payload n, decodes as BaseLevel(n) for every n, and a code that is not
\* in the table (9999 for one) makes the decode fail.
C25_BaseLevelAndUnknownCodes ==
    result.op = "StatusType" =>
        /\ (result.arg[1].code = 11 /\ result.arg[1].length_hint = <<6>>) =>
              /\ result.status = "ok"
              /\ result.arg[1].decoded =
                     <<[name |-> "BaseLevel", fields |-> <<result.arg[1].payload>>,
                        widths |-> <<4>>]>>
              /\ Consumed = 6
        /\ result.arg[1].code \notin StatusCodes =>
              /\ result.status = "panic"
              /\ result.arg[1].decoded = <<>>

\* code 11 with the payload 258
C25_Witness ==
    /\ result.op = "StatusType"
    /\ result.arg[1].code = 11
    /\ result.arg[1].length_hint = <<6>>
    /\ result.arg[1].payload = 258
    /\ result.arg[1].decoded = <<[name |-> "BaseLevel", fields |-> <<258>>, widths |-> <<4>>]>>

\* the decoded payload of a StatusType: one to three values of the widths
\* allowed, as the arm of its code says, and the same under another length
\* hint that lets the decode succeed
PayloadShapeWithin(widths) ==
    (result.op = "StatusType" /\ result.arg[1].decoded # <<>>) =>
        LET status == result.arg[1].decoded[1]
        IN
        /\ Len(status.widths) \in 1..3
        /\ \A i \in 1..Len(status.widths) : status.widths[i] \in widths
        /\ Len(status.fields) = Len(status.widths)
        /\ status.widths = StatusTypes[CHOOSE i \in 1..Len(StatusTypes) :
                                        StatusTypes[i].code = result.arg[1].code].fields
        /\ result.arg[1].other # <<>> => result.arg[1].other = result.arg[1].decoded

\* C26: for every assigned StatusType code the payload is one, two or three
\* numeric values, each 1, 2, 4 or 8 bytes wide, and which shape it is
\* depends on the code alone, never on the length hint.
C26_ShapeFromCodeAlone == PayloadShapeWithin({1, 2, 4, 8})

\* C26 as stated: each value is 1, 4 or 8 bytes wide.
C26_AsStated == PayloadShapeWithin({1, 4, 8})

\* a four-byte value decoded under the hints 6 and 12
C26_Witness ==
    /\ result.op = "StatusType"
    /\ result.arg[1].length_hint = <<6>>
    /\ result.arg[1].other_hint = <<12>>
    /\ result.arg[1].decoded # <<>>
    /\ result.arg[1].other = result.arg[1].decoded
    /\ result.arg[1].decoded[1].widths = <<4>>

\* the codes the variants of an enumeration are declared with
AcceptedCodes(name) ==
    CASE name = "LoginFailedReason" -> {1, 2, 8}
      [] name = "LoginFailedReason2" -> 0..8
      [] name = "CharacterSelectionFailedReason" -> {0}
      [] name = "CharacterCreationFailedReason" -> {0, 1, 3, 255}

\* C27: the wire codes of an enumeration count up from 0 unless a variant
\* declares its own; decoding is the exact inverse of encoding on the codes
\* of the variants and fails on every other code: CharacterCreationFailedReason
\* accepts exactly 0, 1, 3 and 255, LoginFailedReason exactly 1, 2 and 8.
C27_EnumCodesRoundTrip ==
    \A i \in 1..Len(Enumerations) :
        result.op = Enumerations[i].name =>
            LET call == result.arg[1]
                variants == Enumerations[i].variants
            IN
            /\ result.status = "ok" <=> call.code \in AcceptedCodes(result.op)
            /\ result.status = "ok" =>
                  /\ \E v \in 1..Len(variants) : variants[v].name = call.decoded
                  /\ call.encoded = <<call.code>>
            /\ result.status # "ok" =>
                  /\ result.status = "panic"
                  /\ call.decoded = Invalid
                  /\ call.encoded = <<>>

\* the code 255 of CharacterCreationFailedReason
C27_Witness ==
    /\ result.op = "CharacterCreationFailedReason"
    /\ result.status = "ok"
    /\ result.arg[1].code = 255
    /\ result.arg[1].decoded = "CharacterCerationFailed"
    /\ result.arg[1].encoded = <<255>>

\* C28: no two packet types declare the same 16-bit header, so that at most
\* one branch of the trial chain matches a frame and the events of a buffer
\* do not depend on the order the packet types are tried in.
C28_OneBranchPerHeader ==
    result.op = "header" =>
        LET call == result.arg[1]
        IN
        /\ Len(call.declared) <= 1
        /\ Len(call.tried) <= 1
        /\ \A i \in 1..Len(call.tried) : call.declared = <<call.tried[i]>>
        /\ call.header \in UndeclaredHeaders => call.declared = <<>>

\* a server-tick frame matches the branch of ServerTickPacket and no other
C28_Witness ==
    /\ result.op = "header"
    /\ result.arg[1].header = ServerTickPacket_header
    /\ result.arg[1].declared = <<"ServerTickPacket">>
    /\ result.arg[1].tried = <<"ServerTickPacket">>

\* the bytes of the decoded file at the positions `from`..`to` behind `start`
FileSlice(start, from, to) == SubSeq(byte_stream.data, start + from, start + to)

\* C29: decoding an object record of the map resources depends on the version
\* tag alone: from 1.6 on the 40-byte name, the animation type, the animation
\* speed and the block type are read in front of the model name and the
\* object has a name; below 1.6 none of them is read and the object has no
\* name; the fields from the model name on are read the same way in both.
C29_ObjectRecordByVersion ==
    result.op = "MapResources" =>
        LET call == result.arg[1]
            named == \/ call.version.major > 1
                     \/ call.version.major = 1 /\ call.version.minor >= 6
            start == IF named THEN 52 ELSE 0
            object == call.object[1]
            shared == <<"model_name", "_node_name", "position", "rotation", "scale">>
        IN
        /\ result.status = "ok"
        /\ named =>
              /\ object.name = <<TrimAtZero(FileSlice(0, 1, 40))>>
              /\ object.reads =
                     <<"name", "_animation_type", "_animation_speed", "_block_type">> \o shared
        /\ ~named =>
              /\ object.name = <<>>
              /\ object.reads = shared
        /\ object.model_name = TrimAtZero(FileSlice(start, 1, 80))
        /\ object.position = FileSlice(start, 161, 172)
        /\ object.rotation = FileSlice(start, 173, 184)
        /\ object.scale = FileSlice(start, 185, 196)
        /\ Consumed = start + 196

\* a record of version 1.6, whose name ends at the first zero byte
C29_Witness ==
    /\ result.op = "MapResources"
    /\ result.arg[1].version = [major |-> 1, minor |-> 6]
    /\ result.arg[1].object[1].name = << <<3, 6, 9, 1, 4, 7, 10, 2, 5, 8>> >>
    /\ result.arg[1].object[1].reads[5] = "model_name"
    /\ Consumed = 248

-----------------------------------------------------------------------------
(* Properties of log_in, call by call (LogInSpec) *)

\* C30: log_in eventually returns or aborts even when the login server or
\* the character server never responds: every blocking connect and read on
\* the login and the character connection is bounded by a timeout.
C30_LogInReturns ==
    (result.op = "log_in" /\ result.status = "running")
        ~> (result.op = "log_in" /\ result.status \in {"ok", "err", "panic"})

-----------------------------------------------------------------------------
(* Properties of the slot-swap operations (SlotSpec) *)

\* C31: the pending slot-swap request holds at most one origin slot:
\* request_switch_character_slot overwrites it, cancel_switch_character_slot
\* clears it, and whenever switch_character_slot returns (Ok or the server's
\* Error status) the pending request is empty, so that a second
\* switch_character_slot needs a new request first.
C31_PendingRequestIsTaken ==
    [][ /\ Len(move_request') <= 1
        /\ result'.op = "request_switch_character_slot" =>
              move_request' = <<result'.arg[1]>>
        /\ result'.op = "cancel_switch_character_slot" => move_request' = <<>>
        /\ result'.op = "switch_character_slot" =>
              /\ result'.status \in {"ok", "err"} =>
                    /\ move_request' = <<>>
                    /\ move_request # <<>>
                    /\ written'[1].frame.origin_slot = move_request[1]
              /\ move_request = <<>> => result'.status = "panic"
      ]_vars

\* the swap from slot 2 was refused by the server: nothing is pending
C31_Witness ==
    /\ result.op = "switch_character_slot"
    /\ result.status = "err"
    /\ written[1].frame.origin_slot = 2
    /\ move_request = <<>>

\* C32: switch_character_slot keeps the length of the roster: on the Success
\* status the roster is replaced by exactly as many character records as it
\* held before the call, read in order from the response, and on the Error
\* status the call returns an error and the roster is unchanged.
C32_SwitchKeepsRosterLength ==
    [][ result'.op = "switch_character_slot" =>
          /\ result'.status = "ok" =>
                /\ ReceivedFrame(received', 1, SwitchCharacterSlotResponsePacket_header)
                /\ Frame(received', 1).status = 0
                /\ Len(characters') = Len(characters)
                /\ characters' = SubSeq(received'[1].data, 4, 3 + Len(characters))
          /\ ( /\ ReceivedFrame(received', 1, SwitchCharacterSlotResponsePacket_header)
               /\ Frame(received', 1).status = 1 )
             => /\ result'.status = "err"
                /\ characters' = characters
          /\ result'.status = "err" => characters' = characters
      ]_vars

\* a roster of one character swapped against a response with two records
C32_Witness ==
    /\ result.op = "switch_character_slot"
    /\ result.status = "ok"
    /\ Len(characters) = 1
    /\ Len(received[1].data) = 5
    /\ characters = <<received[1].data[4]>>

-----------------------------------------------------------------------------
(* Properties of the friend list (FriendSpec)                              *)

\* what one frame does to the friend list
FriendFrameEffect(list, frame) ==
    IF frame.header = FriendListPacket_header THEN frame.friends
    ELSE IF frame.header = FriendRequestResultPacket_header THEN
        IF frame.result = 0 THEN list \o <<frame.friend>> ELSE list
    ELSE IF frame.header = NotifyFriendRemovedPacket_header THEN
        LET differs(friend) == \/ friend.account_id # frame.account_id
                               \/ friend.character_id # frame.character_id
        IN  SelectSeq(list, differs)
    ELSE list

\* the effect of the frames of a buffer, up to the first frame of no known type
RECURSIVE FriendFramesEffect(_, _)
FriendFramesEffect(list, frames) ==
    IF frames = <<>> \/ Head(frames).header = UnknownHeader THEN list
    ELSE FriendFramesEffect(FriendFrameEffect(list, Head(frames)), Tail(frames))

OutgoingFriendOperations ==
    {"add_friend", "remove_friend", "accept_friend_request", "reject_friend_request"}

\* C33: the friend list changes only in a network_events call that received
\* a friend-list, friend-request-result or friend-removed frame; a call that
\* returns leaves the list the frames of its buffer make of it, in order: the
\* friend-list frame replaces it by its entries, the friend-request-result
\* frame appends its friend iff the result is Accepted, the friend-removed
\* frame removes the entries whose account id and character id both match,
\* any other frame changes nothing.  add_friend, remove_friend,
\* accept_friend_request and reject_friend_request leave it unchanged.
C33_FriendListChanges ==
    [][/\ friend_list' # friend_list =>
            /\ result'.op = "network_events"
            /\ \E i \in 1..Len(received'[1].data) :
                   received'[1].data[i].header \in
                       {FriendListPacket_header, FriendRequestResultPacket_header,
                        NotifyFriendRemovedPacket_header}
       /\ (result.op = "idle" /\ result'.op = "network_events" /\ result'.status = "ok") =>
            friend_list' = FriendFramesEffect(friend_list, received'[1].data)
       /\ result'.op \in OutgoingFriendOperations => friend_list' = friend_list
      ]_vars

\* an accepted friend was appended and a removal that matches its account id
\* but not its character id left it in the list
C33_Witness ==
    /\ result.op = "network_events"
    /\ result.status = "ok"
    /\ received = <<ReadData(<<FriendRequestResultPacket(0, Friend(1, 2, "bob")),
                               NotifyFriendRemovedPacket(1, 1)>>)>>
    /\ friend_list = <<Friend(2, 1, "cat"), Friend(1, 2, "bob")>>

-----------------------------------------------------------------------------
(* Properties of the inventory bracket (InventorySpec)                     *)

IsListFrame(frame) ==
    /\ frame.header \in {RegularItemListPacket_header, EquippableItemListPacket_header}
    /\ ~frame.truncated

\* the items of the list frames data[from..to], in arrival order, as the
\* Inventory event holds them
RECURSIVE BracketItems(_, _, _)
BracketItems(data, from, to) ==
    IF from > to THEN <<>>
    ELSE LET frame == data[from]
             entry(item) == IF frame.header = RegularItemListPacket_header
                            THEN <<item.index, item.item_id, "None", "None">>
                            ELSE <<item.index, item.item_id, item.equip_position,
                                   item.equipped_position>>
         IN  [i \in 1..Len(frame.item_information) |-> entry(frame.item_information[i])]
             \o BracketItems(data, from + 1, to)

\* data[start] is the first inventory-start frame and only server ticks precede it
FirstBracketAt(data, start) ==
    /\ start \in 1..Len(data)
    /\ data[start] = InventoyStartPacket
    /\ \A i \in 1..(start - 1) : data[i] = ServerTickPacket(8)

\* the bracket opened at data[start] is closed at data[end]
ClosedAt(data, start, end) ==
    /\ end \in (start + 1)..Len(data)
    /\ data[end] = InventoyEndPacket
    /\ \A i \in (start + 1)..(end - 1) : IsListFrame(data[i])

InventoryEvents(events) == {i \in 1..Len(events) : events[i].type = "Inventory"}

\* C34: in a network_events call whose read opens an inventory bracket, the
\* call returns only if list frames alone follow up to an inventory-end frame
\* of the same read, and then the bracket yields one Inventory event with the
\* items of its list frames in arrival order (regular items with both equip
\* positions None); a bracket that meets another frame or the end of the
\* buffer aborts the call, and a call that returns holds no Inventory event
\* without a bracket.
C34_InventoryBracket ==
    (result.op = "network_events" /\ received # <<>>) =>
        LET data == received[1].data IN
        /\ \A start \in 1..Len(data) : FirstBracketAt(data, start) =>
              IF \E end \in 1..Len(data) : ClosedAt(data, start, end)
              THEN result.status = "ok" =>
                    \E end \in 1..Len(data) :
                        /\ ClosedAt(data, start, end)
                        /\ result.events[start] = Inventory(BracketItems(data, start + 1, end - 1))
                        /\ \A i \in 1..(start - 1) : result.events[i].type # "Inventory"
              ELSE result.status = "panic"
        /\ (result.status = "ok" /\ \A i \in 1..Len(data) : data[i] # InventoyStartPacket) =>
              InventoryEvents(result.events) = {}
        /\ result.status = "ok" =>
              Cardinality(InventoryEvents(result.events))
                  <= Cardinality({i \in 1..Len(data) : data[i] = InventoyEndPacket})

\* a bracket of a regular and an equippable list frame was closed in its read
C34_Witness ==
    /\ result.op = "network_events"
    /\ result.status = "ok"
    /\ received = <<ReadData(<<InventoyStartPacket,
                               RegularItemListPacket(<<RegularItemInformation(2, 501)>>),
                               EquippableItemListPacket(
                                   <<EquippableItemInformation(5, 1201, "RightHand", "None"),
                                     EquippableItemInformation(6, 2301, "Armor", "Armor")>>),
                               InventoyEndPacket>>)>>
    /\ result.events = <<Inventory(<<<<2, 501, "None", "None">>,
                                     <<5, 1201, "RightHand", "None">>,
                                     <<6, 2301, "Armor", "Armor">>>>)>>

-----------------------------------------------------------------------------
(* Properties of the log-out exchange (Spec)                               *)

\* the frame asks for the Disconnect event: a restart response or a
\* disconnect response whose status is Ok
ConfirmsDisconnect(frame) ==
    \/ frame.header = RestartResponsePacket_header /\ frame.result = 1
    \/ frame.header = DisconnectResponsePacket_header /\ frame.result = 0

\* C35: a network_events call returns a Disconnect event only if it received
\* a restart response or a disconnect response with status Ok; such a frame
\* alone yields the Disconnect event alone, a restart response Nothing or a
\* disconnect response Wait10Seconds alone yields one chat message and no
\* Disconnect.  log_out returns no event and leaves the map connection open
\* or closed as it was.
C35_DisconnectOnlyWhenConfirmed ==
    [][/\ (result'.op = "network_events" /\ result'.status = "ok") =>
            /\ (\E i \in 1..Len(result'.events) : result'.events[i] = Disconnect) =>
                  \E r \in 1..Len(received') : \E i \in 1..Len(received'[r].data) :
                      ConfirmsDisconnect(received'[r].data[i])
            /\ \A frame \in {RestartResponsePacket(1), DisconnectResponsePacket(0)} :
                  received' = <<ReadData(<<frame>>)>> => result'.events = <<Disconnect>>
            /\ received' = <<ReadData(<<RestartResponsePacket(0)>>)>> =>
                  result'.events = <<ChatMessage("Failed to log out.")>>
            /\ received' = <<ReadData(<<DisconnectResponsePacket(1)>>)>> =>
                  result'.events =
                      <<ChatMessage("Please wait 10 seconds before trying to log out.")>>
       /\ result'.op = "log_out" =>
            /\ result'.events = <<>>
            /\ map_stream'.open = map_stream.open
            /\ result'.status = "ok" => map_stream'.open
      ]_vars

\* the server refused the restart request log_out wrote on this connection
C35_Witness ==
    /\ result.op = "network_events"
    /\ result.status = "ok"
    /\ map_stream.open
    /\ map_stream.restart_sent
    /\ received = <<ReadData(<<RestartResponsePacket(0)>>)>>
    /\ result.events = <<ChatMessage("Failed to log out.")>>

-----------------------------------------------------------------------------
(* Properties of the fixed sizes (CodecSpec)                               *)

-----------------------------------------------------------------------------
(* Properties of the StatusType length hint (CodecSpec)                    *)

\* the bytes the values of the code take
ShapeBytes(code) ==
    Sum(StatusTypes[CHOOSE i \in 1..Len(StatusTypes) : StatusTypes[i].code = code].fields)

\* C37: a StatusType decoded under the length hint h (6, 12, 10 or 3) leaves
\* the enclosing cursor exactly h bytes further for every assigned code,
\* whatever the size of its values; a code whose values need more than h - 2
\* bytes fails; the bytes between the values and the end of the h bytes are
\* skipped: a single value is the first bytes of the payload and nothing else.
C37_LengthHintIsConsumed ==
    (result.op = "StatusType" /\ result.arg[1].code \in StatusCodes
        /\ result.arg[1].length_hint # <<>>) =>
        LET arg == result.arg[1]
            h == arg.length_hint[1]
        IN
        /\ h \in {6, 12, 10, 3}
        /\ result.status = "ok" <=> ShapeBytes(arg.code) <= h - 2
        /\ result.status = "panic" <=> ShapeBytes(arg.code) > h - 2
        /\ result.status = "ok" =>
              /\ Consumed = h
              /\ Sum(arg.decoded[1].widths) = ShapeBytes(arg.code)
              /\ arg.decoded[1].widths = <<1>> => arg.decoded[1].fields = <<arg.payload % 256>>
              /\ arg.decoded[1].widths = <<2>> => arg.decoded[1].fields = <<arg.payload % 65536>>
              /\ arg.decoded[1].widths = <<4>> => arg.decoded[1].fields = <<arg.payload>>

\* a one-byte value decoded under the hint 12: nine bytes were skipped
C37_Witness ==
    /\ result.op = "StatusType"
    /\ result.status = "ok"
    /\ result.arg[1].code = 247
    /\ result.arg[1].length_hint = <<12>>
    /\ result.arg[1].payload = 258
    /\ result.arg[1].decoded[1].fields = <<2>>
    /\ Consumed = 12

-----------------------------------------------------------------------------
(* Properties of the continued read (PollSpec)                             *)

\* the step began with a read of exactly ContinuedReadLength bytes
ContinuedStep ==
    /\ LoopStep
    /\ NewReads # <<>>
    /\ "length" \in DOMAIN NewReads[1]

\* C38: a step of the polling loop whose read returned exactly 1400 bytes
\* dispatches these bytes and those of the following read as one buffer, a
\* read of any other length is dispatched alone, and when the read that
\* continues a 1400-byte read would block the call goes on or returns: it
\* does not abort.
C38_ContinuedReadReturns ==
    [][/\ ContinuedStep =>
            /\ Len(NewReads) = 2
            /\ ~aborted'
            /\ result'.status # "panic"
            /\ NewReads[2].ok => byte_stream'.data = NewReads[1].data \o NewReads[2].data
       /\ ( /\ LoopStep
            /\ Len(NewReads) = 1
            /\ NewReads[1].ok
            /\ NewReads[1].data # <<>>
            /\ result'.status # "panic" )
          => byte_stream'.data = NewReads[1].data
      ]_vars

-----------------------------------------------------------------------------
(* Properties of the account id check of log_in (Spec)                     *)

\* log_in read the login success frame and then an account id from the
\* character server
AccountIdReceived(rd) ==
    /\ Len(rd) >= 2
    /\ rd[1].ok /\ rd[1].data # <<>>
    /\ rd[1].data[1].header = LoginServerLoginSuccessPacket_header
    /\ ~rd[1].data[1].truncated
    /\ rd[2].ok /\ rd[2].data # <<>>
    /\ rd[2].data[1].header = RawData
    /\ ~rd[2].data[1].truncated

\* C39: log_in returns Ok only if the first data it read from the character
\* server is the account id of the login success frame; on another account
\* id it aborts with that read as its last, without having requested the
\* character list, and the roster is the one before the call.
C39_AccountIdMustMatch ==
    [][result'.op = "log_in" =>
          /\ result'.status = "ok" =>
                /\ AccountIdReceived(received')
                /\ received'[2].data[1].account_id = received'[1].data[1].account_id
          /\ ( /\ AccountIdReceived(received')
               /\ received'[2].data[1].account_id # received'[1].data[1].account_id )
             => /\ result'.status = "panic"
                /\ Len(received') = 2
                /\ \A i \in 1..Len(written') :
                       written'[i].frame.header # RequestCharacterListPacket_header
                /\ characters' = characters
      ]_vars

\* a second log_in met the account id 2 after the login success frame of
\* account 1 and left the roster of the first
C39_Witness ==
    /\ result.op = "log_in"
    /\ result.status = "panic"
    /\ result.msg = "assertion failed"
    /\ received[1].data[1].account_id = 1
    /\ received[2].data[1].account_id = 2
    /\ characters # <<>>

-----------------------------------------------------------------------------
(* Properties of WorldPosition2 (CodecSpec)                                *)

\* C40: for every six bytes, the x1 and y1 WorldPosition2 decodes are the x
\* and y WorldPosition decodes from the first three of them, and x1, y1, x2
\* and y2 all lie in 0..1023.
C40_SharedPrefixDecodesAlike ==
    result.op = "WorldPosition2" =>
        LET decoded == result.arg[1].decoded[1]
            position == result.arg[1].position[1]
        IN
        /\ result.status = "ok"
        /\ decoded.x1 = position.x
        /\ decoded.y1 = position.y
        /\ \A coordinate \in {decoded.x1, decoded.y1, decoded.x2, decoded.y2} :
               coordinate \in 0..MaxCoordinate

====
